---------------------------- MODULE Spec2Model ----------------------------
(***************************************************************************)
(* Model of the price pipeline of comparador-panales-chile:                *)
(*   - main.py: the SQLite historical store (tiendas, productos, precios)  *)
(*     and the write path obtener_o_crear_tienda,                          *)
(*     obtener_o_crear_producto, guardar_en_db;                            *)
(*   - app.py: the read path buscar_productos, obtener_top_por_talla,      *)
(*     historico, and the name classifiers they use;                       *)
(*   - analysis.py: the unit-price top-N of the report.                    *)
(*                                                                         *)
(* Python None and SQL NULL are the value NULL.  A product name is the     *)
(* sequence of its lower-case words; the LIKE / "in" / regex tests of the  *)
(* code that look for a word are tests on these words.                     *)
(***************************************************************************)
EXTENDS Integers, Sequences, FiniteSets, TLC

\* Python None / SQL NULL.  Every number the program handles here is >= 0
\* (limpiar_precio keeps digits only, counts come from \d+).
NULL == -1

\* Python truthiness of an int-or-None: None and 0 are falsy.
Truthy(x) == x # NULL /\ x # 0

-----------------------------------------------------------------------------
(* Bounds of the model. *)

\* most rows the precios table holds in a run of the model
MaxPrecios == 3
\* most records of one guardar_en_db call
MaxLote == 2
\* last value of the clock that stamps fecha_scraping
MaxFecha == 3
\* rows of alertas
MaxAlertas == 1
\* rows of alertas_enviadas
MaxEnviadas == 2

-----------------------------------------------------------------------------
(* The database and the last call. *)

VARIABLES
    esquema,    \* inicializar_db has created the tables tiendas, productos, precios
    tiendas,    \* table tiendas: row i has id i; [nombre, url_base]
    productos,  \* table productos: row i has id i
    precios,    \* table precios: row i has id i
    reloj,      \* the clock main() reads for fecha_scraping
    lote,       \* the records of the last guardar_en_db call
    llamada,    \* the arguments of the last direct obtener_o_crear_producto call
    ret,        \* what that call returned
    fallo,      \* the record of the last run whose write failed; 0 if none did
    alertas,    \* table alertas: row i has id i and token i
    alertas_enviadas,  \* table alertas_enviadas
    correos,    \* the e-mails the last verificar_alertas call handed to Resend
    archivos,   \* the CSV file of every store on disk: its records, <<>> if none
    extraidos   \* what the scraper of every store did in the last run of main()

vars == <<esquema, tiendas, productos, precios, reloj, lote, llamada, ret, fallo,
          alertas, alertas_enviadas, correos, archivos, extraidos>>

\* the tables and the outbox of alertas.py
varsAlertas == <<alertas, alertas_enviadas, correos>>

\* the files and the outcome of the scrapers
varsScrapers == <<archivos, extraidos>>


-----------------------------------------------------------------------------
(* Product names.  The words that the classifiers of app.py look for. *)

\* INCLUIR_PATRONES: a product is listed only if its name has one of these
INCLUIR_PATRONES ==
    {"panal", "toalla", "toallita", "huggies", "pampers", "babysec", "leche",
     "formula", "nan", "similac", "enfamil", "purita", "nido"}

\* EXCLUIR_ADULTO: and none of these
EXCLUIR_ADULTO == {"adulto", "incontinencia", "plenitud", "tena", "cotidian"}

PANALES_AGUA_KEYWORDS == {"swimmer", "agua", "acuatic", "piscina", "splasher"}

TOALLITAS_KEYWORDS == {"toallita"}

FORMULAS_KEYWORDS ==
    {"formula", "nan", "nido", "similac", "enfamil", "s26", "alula", "nidal",
     "nutrilon", "blemil"}

Palabras(nombre) == {nombre[i] : i \in 1..Len(nombre)}

\* query_excluir_no_panales: the allowlist and the adult exclusion
EsListable(nombre) ==
    /\ Palabras(nombre) \cap INCLUIR_PATRONES # {}
    /\ Palabras(nombre) \cap EXCLUIR_ADULTO = {}

\* TOALLITAS_KEYWORDS and FORMULAS_KEYWORDS of more than one word
TOALLITAS_FRASES == {<<"toalla", "humeda">>, <<"toallas", "humedas">>}

FORMULAS_FRASES == {<<"leche", "infantil">>, <<"leche", "en", "polvo">>}

\* "keyword in nombre_lower" within one word: the keywords the word w holds
EnPalabra(w) ==
    CASE w = "toallitas" -> {"toallita"} [] w = "formulas" -> {"formula"}
      [] w = "sonido" -> {"nido"} [] w = "aguas" -> {"agua"}
      [] w = "acuatico" -> {"acuatic"} [] OTHER -> {w}

\* the keywords of one word found in the name
ClavesEn(nombre) == UNION {EnPalabra(nombre[i]) : i \in 1..Len(nombre)}

\* "keyword in nombre_lower" for a keyword of several words
TieneFrase(nombre, f) ==
    \E i \in 0..(Len(nombre) - Len(f)) : \A j \in 1..Len(f) : nombre[i + j] = f[j]

\* the name holds a keyword of FORMULAS_KEYWORDS; "nan " is the word nan with
\* a space, hence a word, after it
HayFormula(nombre) ==
    \/ ClavesEn(nombre) \cap (FORMULAS_KEYWORDS \ {"nan"}) # {}
    \/ \E i \in 1..(Len(nombre) - 1) : nombre[i] = "nan"
    \/ \E f \in FORMULAS_FRASES : TieneFrase(nombre, f)

\* the name holds a keyword of TOALLITAS_KEYWORDS
HayToallita(nombre) ==
    \/ ClavesEn(nombre) \cap TOALLITAS_KEYWORDS # {}
    \/ \E f \in TOALLITAS_FRASES : TieneFrase(nombre, f)

\* the name holds a keyword of PANALES_AGUA_KEYWORDS
HayAgua(nombre) == ClavesEn(nombre) \cap PANALES_AGUA_KEYWORDS # {}

\* a variant of detectar_categoria that looks for water diapers before wipes
detectar_categoria_AguaPrimero(nombre) ==
    IF nombre = <<>> THEN "Panales"
    ELSE IF HayFormula(nombre) THEN "Formulas Infantiles"
    ELSE IF HayAgua(nombre) THEN "Panales de Agua"
    ELSE IF HayToallita(nombre) THEN "Toallitas Humedas"
    ELSE "Panales"

\* detectar_categoria: formula, then wet wipes, then water diaper, else diaper
detectar_categoria(nombre) ==
    IF nombre = <<>> THEN "Panales"
    ELSE IF HayFormula(nombre) THEN "Formulas Infantiles"
    ELSE IF HayToallita(nombre) THEN "Toallitas Humedas"
    ELSE IF HayAgua(nombre) THEN "Panales de Agua"
    ELSE "Panales"

\* ORDEN_TALLAS: the sizes, smallest first
ORDEN_TALLAS ==
    <<"RN", "RN+", "P", "S-M", "M", "G", "P-M", "XG", "G-XG", "L", "XXG", "L-XL",
      "XL", "XXXG">>

\* "no size detected" (None)
SIN_TALLA == ""

\* nombre.upper() on the size words
Upper(w) ==
    CASE w = "rn" -> "RN" [] w = "rn+" -> "RN+" [] w = "p" -> "P"
      [] w = "m" -> "M" [] w = "g" -> "G" [] w = "xg" -> "XG"
      [] w = "xxg" -> "XXG" [] w = "xxxg" -> "XXXG" [] w = "l" -> "L"
      [] w = "xl" -> "XL" [] w = "s/m" -> "S/M" [] w = "s-m" -> "S-M"
      [] w = "sm" -> "SM" [] w = "l/xl" -> "L/XL" [] w = "l-xl" -> "L-XL"
      [] w = "lxl" -> "LXL" [] w = "p/m" -> "P/M" [] w = "p-m" -> "P-M"
      [] w = "g/xg" -> "G/XG" [] w = "g-xg" -> "G-XG"
      [] OTHER -> w

\* match.group(1).replace("/", "-")
SinBarra(t) ==
    CASE t = "S/M" -> "S-M" [] t = "L/XL" -> "L-XL" [] t = "P/M" -> "P-M"
      [] t = "G/XG" -> "G-XG" [] OTHER -> t

\* what (RN\+?|S[/-]?M|P|M|G|XG|XXG|XXXG|L[/-]?XL) captures at the start of
\* the word w: the first alternative that fits, no \b closing the pattern
CapturaTalla(w) ==
    CASE w \in {"rn", "rn+", "s/m", "s-m", "sm", "p", "m", "g", "xg", "xxg",
                "xxxg", "l/xl", "l-xl", "lxl"} -> Upper(w)
      [] w \in {"p/m", "p-m", "pequeno"} -> "P"
      [] w \in {"g/xg", "g-xg", "grande"} -> "G"
      [] w \in {"mediano"} -> "M"
      [] OTHER -> ""

\* what (RN\+?|P|M|G|XG|XXG|XXXG)\b and (RN|P|M|G|XG|XXG|XXXG|P[/-]M|G[/-]XG)\b
\* capture at the start of the word w: the \b stands before "+", "/" and "-",
\* so that the earlier alternative RN, P or G is the one that fits
CapturaLinea(w) ==
    CASE w \in {"rn", "p", "m", "g", "xg", "xxg", "xxxg"} -> Upper(w)
      [] w = "rn+" -> "RN"
      [] w \in {"p/m", "p-m"} -> "P"
      [] w \in {"g/xg", "g-xg"} -> "G"
      [] OTHER -> ""

\* the capture of pattern 1 (limite FALSE) or of patterns 2 and 3 (TRUE)
Captura(w, limite) == IF limite THEN CapturaLinea(w) ELSE CapturaTalla(w)

TallasAdulto == {"M", "G", "L", "XG", "XL"}

\* (?:PREMIUM|COMFORT|CARE|SEC|COOL|PLUS), found at the end of a word as well
LINEAS == {"premium", "comfort", "care", "sec", "cool", "plus", "babysec"}

\* positions i where word i is one of `antes` and the pattern captures a size
\* at word i+1
Tras(nombre, antes, limite) ==
    {i \in 1..(Len(nombre) - 1) :
        nombre[i] \in antes /\ Captura(nombre[i + 1], limite) # ""}

Min(S) == CHOOSE x \in S : \A y \in S : x <= y
Max(S) == CHOOSE x \in S : \A y \in S : x >= y

\* re.search returns the leftmost match
Primera(nombre, antes, limite) ==
    Captura(nombre[Min(Tras(nombre, antes, limite)) + 1], limite)

\* ADULTO\s+.*?(M|G|L|XG|XL)\b : the first size word after the word "adulto"
TrasAdulto(nombre) ==
    {j \in 2..Len(nombre) :
        /\ Upper(nombre[j]) \in TallasAdulto
        /\ \E i \in 1..(j - 1) : nombre[i] = "adulto"}

\* detectar_talla: the first of the four patterns that matches decides
detectar_talla(nombre) ==
    IF nombre = <<>> THEN SIN_TALLA
    ELSE IF Tras(nombre, {"talla"}, FALSE) # {}
        THEN SinBarra(Primera(nombre, {"talla"}, FALSE))
    ELSE IF Tras(nombre, LINEAS, TRUE) # {}
        THEN Primera(nombre, LINEAS, TRUE)
    ELSE IF Tras(nombre, {"pants"}, TRUE) # {}
        THEN SinBarra(Primera(nombre, {"pants"}, TRUE))
    ELSE IF TrasAdulto(nombre) # {}
        THEN Upper(nombre[Min(TrasAdulto(nombre))])
    ELSE SIN_TALLA

-----------------------------------------------------------------------------
(* The write path of main.py. *)

\* Python's round(a / b) for a >= 0, b > 0: to nearest, a half to the even
RoundDiv(a, b) ==
    LET q == a \div b
        r == a % b
    IN  IF 2 * r < b THEN q
        ELSE IF 2 * r > b THEN q + 1
        ELSE IF q % 2 = 0 THEN q ELSE q + 1

\* a variant of FilasConUrl whose lookup never finds the url
FilasConUrl_Nunca(t, url) == {}

\* ids of the rows of table t with t[i].url = url (UNIQUE(url): at most one)
FilasConUrl(t, url) == {i \in 1..Len(t) : t[i].url = url}

FilasConNombre(t, nombre) == {i \in 1..Len(t) : t[i].nombre = nombre}

\* obtener_o_crear_tienda: [t |-> the table afterwards, id |-> the id returned]
obtener_o_crear_tienda(t, nombre, url_base) ==
    IF FilasConNombre(t, nombre) # {}
    THEN [t |-> t, id |-> Min(FilasConNombre(t, nombre))]
    ELSE [t |-> Append(t, [nombre |-> nombre, url_base |-> url_base]),
          id |-> Len(t) + 1]

\* a variant of ActualizaTamano without the "and not tamano_actual"
ActualizaTamano_Siempre(tamano_unidades, tamano_actual) == Truthy(tamano_unidades)

\* the first UPDATE of obtener_o_crear_producto: "if tamano_unidades and not tamano_actual"
ActualizaTamano(tamano_unidades, tamano_actual) ==
    Truthy(tamano_unidades) /\ ~Truthy(tamano_actual)

\* a variant of ActualizaImagen without the "if imagen_url"
ActualizaImagen_Siempre(imagen_url) == TRUE

\* the second UPDATE: "if imagen_url"
ActualizaImagen(imagen_url) == imagen_url # ""

\* obtener_o_crear_producto: [t |-> productos afterwards, id |-> the id returned]
obtener_o_crear_producto(t, nombre, marca, tamano_unidades, url, imagen_url) ==
    IF FilasConUrl(t, url) # {}
    THEN LET id == Min(FilasConUrl(t, url))
             f1 == IF ActualizaTamano(tamano_unidades, t[id].tamano_unidades)
                   THEN [t[id] EXCEPT !.tamano_unidades = tamano_unidades]
                   ELSE t[id]
             f2 == IF ActualizaImagen(imagen_url)
                   THEN [f1 EXCEPT !.imagen_url = imagen_url]
                   ELSE f1
         IN  [t |-> [t EXCEPT ![id] = f2], id |-> id]
    ELSE [t |-> Append(t, [nombre |-> nombre, marca |-> marca,
                           tamano_unidades |-> tamano_unidades, url |-> url,
                           imagen_url |-> imagen_url]),
          id |-> Len(t) + 1]

\* urls_tiendas.get(tienda_nombre)
UrlBase(tienda) ==
    CASE tienda = "Liquimax" -> "https://www.liquimax.cl"
      [] tienda = "Jumbo" -> "https://www.jumbo.cl"
      [] tienda = "Santa Isabel" -> "https://www.santaisabel.cl"
      [] tienda = "Farmacias Ahumada" -> "https://www.farmaciasahumada.cl"
      [] tienda = "Distribuidora Pepito" -> "https://www.distribuidorapepito.cl"
      [] tienda = "Cruz Verde" -> "https://www.cruzverde.cl"
      [] OTHER -> ""

\* a variant of PrecioPorUnidad that stores 0 for a missing unit price
PrecioPorUnidad_Cero(p) ==
    IF Truthy(p.precio) /\ Truthy(p.cantidad_unidades) /\ p.cantidad_unidades > 0
    THEN RoundDiv(p.precio, p.cantidad_unidades)
    ELSE IF p.precio_por_unidad = NULL THEN 0 ELSE p.precio_por_unidad

\* guardar_en_db, lines 225-231: the unit price stored for record p
PrecioPorUnidad(p) ==
    IF Truthy(p.precio) /\ Truthy(p.cantidad_unidades) /\ p.cantidad_unidades > 0
    THEN RoundDiv(p.precio, p.cantidad_unidades)
    ELSE p.precio_por_unidad

\* a variant of InsertarPrecio that keeps one row per product, store and date
InsertarPrecio_UnoPorDia(tabla, fila) ==
    LET iguales == {i \in 1..Len(tabla) :
                        /\ tabla[i].producto_id = fila.producto_id
                        /\ tabla[i].tienda_id = fila.tienda_id
                        /\ tabla[i].fecha_scraping = fila.fecha_scraping}
    IN  IF iguales = {} THEN Append(tabla, fila)
        ELSE [tabla EXCEPT ![CHOOSE i \in iguales : TRUE] = fila]

\* the INSERT INTO precios of guardar_en_db: always a new row
InsertarPrecio(tabla, fila) == Append(tabla, fila)

\* one iteration of the loop of guardar_en_db on database db
GuardarUno(db, p, fecha_scraping) ==
    LET t == obtener_o_crear_tienda(db.tiendas, p.tienda, UrlBase(p.tienda))
        pr == obtener_o_crear_producto(db.productos, p.nombre, p.marca,
                                       p.cantidad_unidades, p.url, p.imagen)
    IN  [tiendas |-> t.t,
         productos |-> pr.t,
         precios |-> InsertarPrecio(db.precios,
                            [producto_id |-> pr.id, tienda_id |-> t.id,
                             precio |-> p.precio,
                             precio_por_unidad |-> PrecioPorUnidad(p),
                             precio_lista |-> p.precio_lista,
                             fecha_scraping |-> fecha_scraping])]

\* the loop of guardar_en_db over records i..Len(registros)
RECURSIVE GuardarDesde(_, _, _, _)
GuardarDesde(db, registros, i, fecha_scraping) ==
    IF i > Len(registros) THEN db
    ELSE GuardarDesde(GuardarUno(db, registros[i], fecha_scraping),
                      registros, i + 1, fecha_scraping)

Db == [tiendas |-> tiendas, productos |-> productos, precios |-> precios]

\* guardar_en_db(conn, productos, fecha_scraping), commit included
guardar_en_db(registros, fecha_scraping) ==
    LET db == GuardarDesde(Db, registros, 1, fecha_scraping)
    IN  /\ tiendas' = db.tiendas
        /\ productos' = db.productos
        /\ precios' = db.precios
        /\ lote' = registros
        /\ fallo' = 0

-----------------------------------------------------------------------------
(* The consolidated file: steps 4 and 5 of main(). *)

\* palabras_a_eliminar of normalizar_nombre
PALABRAS_A_ELIMINAR ==
    {"panal", "panales", "bebe", "adulto", "unidades", "unid", "und", "talla", "un"}

\* re.sub(r"[^\w\s]", "", texto) on a word
SinSignos(w) ==
    CASE w \in {"s/m", "s-m"} -> "sm" [] w \in {"l/xl", "l-xl"} -> "lxl"
      [] w \in {"p/m", "p-m"} -> "pm" [] w \in {"g/xg", "g-xg"} -> "gxg"
      [] w = "rn+" -> "rn" [] w = "-" -> "" [] OTHER -> w

NoVacia(w) == w # ""

\* normalizar_nombre: the words to drop removed, then the signs, then the
\* blanks collapsed
normalizar_nombre(nombre) ==
    LET Queda(w) == w \notin PALABRAS_A_ELIMINAR
        q == SelectSeq(nombre, Queda)
    IN  SelectSeq([i \in 1..Len(q) |-> SinSignos(q[i])], NoVacia)

\* a variant of EsMasBajo with "<" for "<="
EsMasBajo_Estricto(precio, minimo) == precio < minimo

\* line 503: precio <= precio_minimo_por_nombre[nombre_norm]
EsMasBajo(precio, minimo) == precio <= minimo

\* precio_minimo_por_nombre[nombre_norm] after the second loop
PrecioMinimoPorNombre(registros, nombre_norm) ==
    LET P == {registros[k].precio : k \in {j \in 1..Len(registros) :
                  /\ normalizar_nombre(registros[j].nombre) = nombre_norm
                  /\ registros[j].precio # NULL}}
    IN  IF P = {} THEN NULL ELSE CHOOSE x \in P : \A y \in P : x <= y

\* marcar_precios_mas_bajos(productos): the records with nombre_normalizado
\* and es_precio_mas_bajo
marcar_precios_mas_bajos(registros) ==
    [k \in 1..Len(registros) |->
        LET nn == normalizar_nombre(registros[k].nombre)
            mn == PrecioMinimoPorNombre(registros, nn)
        IN  [registro |-> registros[k],
             nombre_normalizado |-> nn,
             es_precio_mas_bajo |->
                 IF registros[k].precio # NULL /\ mn # NULL
                    /\ EsMasBajo(registros[k].precio, mn)
                 THEN "Si" ELSE ""]]

-----------------------------------------------------------------------------
(* Inputs. *)

NomPanalG == <<"panal", "huggies", "talla", "g">>
NomFormulaG == <<"formula", "nan", "premium", "g">>
NomFormula == <<"formula", "nan">>

\* es_formula of the scrapers
es_formula(nombre) == Palabras(nombre) \cap FORMULAS_KEYWORDS # {}

\* the unit price most scrapers put in the record: round(precio / cantidad)
PpuScraper(precio, cantidad) ==
    IF Truthy(precio) /\ Truthy(cantidad) /\ cantidad > 0
    THEN RoundDiv(precio, cantidad)
    ELSE NULL

\* santaisabel_scraper: per kilogram for a formula, per unit otherwise
PpuSantaIsabel(nombre, precio, cantidad) ==
    IF Truthy(precio) /\ Truthy(cantidad) /\ cantidad > 0
    THEN IF es_formula(nombre) THEN RoundDiv(precio * 1000, cantidad)
         ELSE RoundDiv(precio, cantidad)
    ELSE NULL

\* ahumada_scraper: per kilogram for a formula; otherwise the figure the store
\* prints ("$ 180 x Unidad"), and the computed one only when there is none
PpuAhumada(nombre, precio, cantidad, figura) ==
    IF es_formula(nombre)
    THEN IF Truthy(precio) /\ Truthy(cantidad) /\ cantidad > 0
         THEN RoundDiv(precio * 1000, cantidad)
         ELSE NULL
    ELSE IF ~Truthy(figura) /\ Truthy(precio) /\ Truthy(cantidad) /\ cantidad > 0
         THEN RoundDiv(precio, cantidad)
         ELSE figura

\* A record as leer_csv returns it (COLUMNAS of main.py).
Registro(nombre, precio, marca, cantidad, ppu, url, tienda, imagen, lista) ==
    [nombre |-> nombre, precio |-> precio, marca |-> marca,
     cantidad_unidades |-> cantidad, precio_por_unidad |-> ppu, url |-> url,
     tienda |-> tienda, imagen |-> imagen, precio_lista |-> lista]

\* The product pages the stores serve: url, store, name, brand.
Paginas ==
    {<<"u1", "Liquimax", NomPanalG, "HUGGIES">>,
     <<"u2", "Jumbo", NomPanalG, "Huggies">>,
     <<"u3", "Jumbo", NomFormulaG, "Nan">>}

\* The records of the pipeline runs: every page with every price and count,
\* the store supplying no unit price of its own.
Entradas ==
    {Registro(pg[3], precio, pg[4], cantidad, PpuScraper(precio, cantidad),
              pg[1], pg[2], "", NULL) :
        pg \in Paginas, precio \in {NULL, 99, 100, 200}, cantidad \in {NULL, 2}}

\* The records of the history runs: the prices 100, 90, 95 of two pages.
EntradasHistoria ==
    {Registro(pg[3], precio, pg[4], 2, PpuScraper(precio, 2), pg[1], pg[2], "", NULL) :
        pg \in {<<"u1", "Liquimax", NomPanalG, "HUGGIES">>,
                <<"u2", "Jumbo", NomPanalG, "Huggies">>},
        precio \in {90, 95, 100}}

NomPanal == <<"panal", "huggies">>

\* The records of the two-store scenario: the same diaper of size G at two
\* stores at 500, 599 or 600 for 2 units, a diaper without size at 400 for 2
\* units, and an infant formula of size G without count.
EntradasEscenario ==
    {Registro(NomPanalG, precio, pg[3], 2, PpuScraper(precio, 2), pg[1], pg[2], "", NULL) :
        pg \in {<<"u1", "Liquimax", "HUGGIES">>, <<"u2", "Jumbo", "Huggies">>},
        precio \in {500, 599, 600}}
    \cup
    {Registro(NomPanal, 400, "Huggies", 2, PpuScraper(400, 2), "u3", "Jumbo", "", NULL),
     Registro(NomFormulaG, 100, "Nan", NULL, PpuSantaIsabel(NomFormulaG, 100, NULL),
              "u4", "Santa Isabel", "", NULL)}

\* The records of the brand runs: an infant formula that two stores sell under
\* the brand "NAN OPTIPRO" or "Nan", and a diaper of the brand "HUGGIES".
EntradasMarca ==
    {Registro(NomFormula, 100, marca, NULL, PpuScraper(100, NULL), pg[1], pg[2], "", NULL) :
        marca \in {"NAN OPTIPRO", "Nan"},
        pg \in {<<"u1", "Jumbo">>, <<"u2", "Liquimax">>}}
    \cup
    {Registro(NomPanalG, 500, "HUGGIES", 2, PpuScraper(500, 2), "u3", "Jumbo", "", NULL)}

\* The records of the savings runs: the diaper of size G in a pack of 2 at 500
\* and in a pack of 4 at 600, and a diaper without size in a pack of 2 at 400.
EntradasAhorro ==
    {Registro(NomPanalG, 500, "HUGGIES", 2, PpuScraper(500, 2), "u1", "Liquimax", "", NULL),
     Registro(NomPanalG, 600, "Huggies", 4, PpuScraper(600, 4), "u2", "Jumbo", "", NULL),
     Registro(NomPanal, 400, "Huggies", 2, PpuScraper(400, 2), "u3", "Jumbo", "", NULL)}

\* The records of the validation runs: rows of a store's CSV with and without
\* name, url and price; leer_csv leaves an empty text cell as "".
EntradasValidacion ==
    {Registro(nombre, precio, IF nombre = <<>> THEN "" ELSE "Huggies", NULL, NULL,
              url, "Jumbo", "", NULL) :
        nombre \in {<<>>, NomPanalG}, url \in {"", "u1", "u2"}, precio \in {NULL, 500}}

\* The records of the runs with write failures: a diaper at two stores.
EntradasFalla ==
    {Registro(NomPanalG, precio, pg[3], 2, PpuScraper(precio, 2), pg[1], pg[2], "", NULL) :
        pg \in {<<"u1", "Liquimax", "HUGGIES">>, <<"u2", "Jumbo", "Huggies">>},
        precio \in {500, 600}}

\* The records of the list-price runs: rows of the stores' CSVs with a sale
\* price (Cruz Verde rounds the price of its API, 0 included) and with or
\* without a list price, above or below the sale price.
EntradasDescuento ==
    {Registro(pg[3], precio, pg[4], pg[5], PpuScraper(precio, pg[5]), pg[1], pg[2],
              "", lista) :
        pg \in {<<"u1", "Cruz Verde", NomPanalG, "Huggies", 2>>,
                <<"u2", "Cruz Verde", NomFormulaG, "Nan", NULL>>,
                <<"u3", "Jumbo", NomPanalG, "Huggies", 2>>},
        precio \in {0, 9000, 10000}, lista \in {NULL, 9000, 12000}}

\* The names of the classification runs: no keyword, keywords of one set, of
\* several sets, inside longer words and of several words, and the empty name.
NombresCategoria ==
    {<<>>, <<"panal", "huggies">>, <<"leche", "nan">>, <<"nan", "toallita">>,
     <<"formula", "toallita", "agua">>, <<"toallas", "humedas", "piscina">>,
     <<"toallitas", "aguas">>, <<"panal", "sonido", "swimmer">>}

\* The records of the classification runs: a store's rows under those names.
EntradasCategoria ==
    {Registro(n, 500, "Huggies", 2, PpuScraper(500, 2), pg[1], pg[2],
              "", NULL) :
        n \in NombresCategoria,
        pg \in {<<"u1", "Jumbo">>, <<"u2", "Jumbo">>, <<"u3", "Liquimax">>}}

\* The names of the size runs: sizes after "talla", after a product line and
\* after "pants", written with "/", with "-" and without separator, a size
\* written out as a word, and names without size.
NombresTalla ==
    {<<"panal", "huggies">>, <<"panal", "huggies", "talla", "xxg">>,
     <<"panal", "huggies", "talla", "s/m">>, <<"panal", "huggies", "talla", "sm">>,
     <<"panal", "huggies", "talla", "lxl">>, <<"panal", "huggies", "talla", "grande">>,
     <<"panal", "babysec", "premium", "rn+">>, <<"panal", "huggies", "pants", "p/m">>,
     <<"panal", "huggies", "pants", "g-xg">>, <<"panal", "huggies", "talla", "xl">>}

\* The records of the size runs: a store's rows under those names.
EntradasTalla ==
    {Registro(n, 500, "Huggies", 2, PpuScraper(500, 2), pg[1], pg[2], "", NULL) :
        n \in NombresTalla, pg \in {<<"u1", "Jumbo">>, <<"u2", "Liquimax">>}}

\* The records of the consolidation runs: one product under two spellings of
\* its name at two stores and a formula, with and without price.
EntradasConsolidado ==
    {Registro(pg[3], precio, pg[4], 2, PpuScraper(precio, 2), pg[1], pg[2], "", NULL) :
        pg \in {<<"u1", "Liquimax", NomPanalG, "HUGGIES">>,
                <<"u2", "Jumbo", <<"panales", "huggies", "g">>, "Huggies">>,
                <<"u3", "Jumbo", NomFormula, "Nan">>},
        precio \in {NULL, 100, 200}}

\* The stores whose scraper and CSV file the freshness runs follow, in the
\* order of archivos_csv.
TiendasConScraper == {"Liquimax", "Jumbo"}

\* The outcomes of one scraper execution: it raised, or it returned after
\* extracting the products (none, or one page's record).
ResultadosDeScraper(tienda) ==
    {[ok |-> FALSE, productos |-> <<>>], [ok |-> TRUE, productos |-> <<>>]}
    \cup {[ok |-> TRUE, productos |-> <<p>>] :
              p \in {q \in EntradasFalla : q.tienda = tienda}}

\* before the first run no scraper has been executed
SinEjecutar == [ok |-> FALSE, productos |-> <<>>]

\* The records of the runs with missing urls: a diaper of Liquimax and a
\* formula of Cruz Verde, each with its url and, the page offering no product
\* link, with the empty url.
EntradasSinUrl ==
    {Registro(NomPanalG, precio, "HUGGIES", 2, PpuScraper(precio, 2), url, "Liquimax",
              "", NULL) : url \in {"", "u1"}, precio \in {500, 600}}
    \cup
    {Registro(NomFormula, precio, "Nan", NULL, NULL, url, "Cruz Verde", "", NULL) :
        url \in {"", "u2"}, precio \in {500, 600}}

NombresUnidad == {<<NomPanalG, "Huggies">>, <<NomFormula, "Nan">>}
PreciosUnidad == {NULL, 0, 5, 8990, 16990}
CantidadesUnidad == {NULL, 0, 2, 68, 800}

\* The records of the unit-price runs: as Santa Isabel emits them, as
\* Farmacias Ahumada emits them with and without a printed figure, and as
\* Distribuidora Pepito emits them when no detail page is visited, the unit
\* price left empty.
EntradasUnidad ==
    {Registro(pg[1], precio, pg[2], cantidad,
              PpuSantaIsabel(pg[1], precio, cantidad),
              "u1", "Santa Isabel", "", NULL) :
        pg \in NombresUnidad, precio \in PreciosUnidad, cantidad \in CantidadesUnidad}
    \cup
    {Registro(pg[1], precio, pg[2], cantidad,
              PpuAhumada(pg[1], precio, cantidad, figura),
              "u2", "Farmacias Ahumada", "", NULL) :
        pg \in NombresUnidad, precio \in PreciosUnidad,
        cantidad \in CantidadesUnidad, figura \in {NULL, 180}}
    \cup
    {Registro(pg[1], precio, pg[2], cantidad, NULL, "u3", "Distribuidora Pepito",
              "", NULL) :
        pg \in NombresUnidad, precio \in PreciosUnidad, cantidad \in CantidadesUnidad}

\* The batches of 1..MaxLote records of E.
Lotes(E) == UNION {[1..n -> E] : n \in 1..MaxLote}

\* The arguments of the direct calls of obtener_o_crear_producto.
Llamadas ==
    [nombre : {NomPanalG, NomFormula}, marca : {"Huggies", "Nan"},
     tamano_unidades : {NULL, 0, 68, 70}, url : {"u1", "u2"},
     imagen_url : {"", "img1"}]

SinLlamada ==
    [nombre |-> <<>>, marca |-> "", tamano_unidades |-> NULL, url |-> "",
     imagen_url |-> ""]

-----------------------------------------------------------------------------
(* The state machine. *)

\* inicializar_db on a new file: three empty tables
Init ==
    /\ esquema = FALSE
    /\ tiendas = <<>>
    /\ productos = <<>>
    /\ precios = <<>>
    /\ reloj = 1
    /\ lote = <<>>
    /\ llamada = SinLlamada
    /\ ret = 0
    /\ fallo = 0
    /\ alertas = <<>>
    /\ alertas_enviadas = <<>>
    /\ correos = <<>>
    /\ archivos = [t \in TiendasConScraper |-> <<>>]
    /\ extraidos = [t \in TiendasConScraper |-> SinEjecutar]

\* main(), steps 2-3: inicializar_db, then the records read are stored under
\* the run's fecha_scraping, the clock never running backwards
GuardarEnDb(E) ==
    \E registros \in Lotes(E), fecha_scraping \in {reloj, reloj + 1} :
        /\ fecha_scraping <= MaxFecha
        /\ Len(precios) + Len(registros) <= MaxPrecios
        /\ esquema' = TRUE
        /\ guardar_en_db(registros, fecha_scraping)
        /\ reloj' = fecha_scraping
        /\ UNCHANGED <<llamada, ret, varsAlertas, varsScrapers>>

\* main(), steps 2-3, when SQLite raises on a write of record k: the exception
\* leaves guardar_en_db before its commit and main with it, and the writes of
\* the records before k, never committed, are rolled back with the connection
GuardarEnDbFalla(E) ==
    \E registros \in Lotes(E), fecha_scraping \in {reloj, reloj + 1} :
        \E k \in 1..Len(registros) :
            /\ fecha_scraping <= MaxFecha
            /\ Len(precios) + Len(registros) <= MaxPrecios
            /\ esquema' = TRUE
            /\ lote' = registros
            /\ fallo' = k
            /\ reloj' = fecha_scraping
            /\ UNCHANGED <<tiendas, productos, precios, llamada, ret, varsAlertas,
                           varsScrapers>>

\* a direct call of obtener_o_crear_producto
LlamarProducto ==
    \E c \in Llamadas :
        LET r == obtener_o_crear_producto(productos, c.nombre, c.marca,
                                          c.tamano_unidades, c.url, c.imagen_url)
        IN  /\ esquema' = TRUE
            /\ productos' = r.t
            /\ ret' = r.id
            /\ llamada' = c
            /\ UNCHANGED <<tiendas, precios, reloj, lote, fallo, varsAlertas,
                           varsScrapers>>

\* one run that stores a single record into the new database
GuardarUnRegistro(E) ==
    \E p \in E :
        /\ precios = <<>>
        /\ esquema' = TRUE
        /\ guardar_en_db(<<p>>, reloj)
        /\ UNCHANGED <<reloj, llamada, ret, varsAlertas, varsScrapers>>

\* guardar_csv of a scraper: the file is written only when there are products
GuardarCsv(archivo, r) ==
    IF r.ok /\ r.productos # <<>> THEN r.productos ELSE archivo

\* main() as a whole: every scraper is executed, an exception is caught and
\* reported; unless all raised, the CSV of every store is read, whatever its
\* scraper did, and the records are stored under the run's fecha_scraping
EjecutarMain ==
    \E e \in [TiendasConScraper -> UNION {ResultadosDeScraper(t) : t \in TiendasConScraper}],
       fecha_scraping \in {reloj, reloj + 1} :
        LET a == [t \in TiendasConScraper |-> GuardarCsv(archivos[t], e[t])]
            todos_los_productos == a["Liquimax"] \o a["Jumbo"]
        IN  /\ \A t \in TiendasConScraper : e[t] \in ResultadosDeScraper(t)
            /\ fecha_scraping <= MaxFecha
            /\ Len(precios) + Len(todos_los_productos) <= MaxPrecios
            /\ archivos' = a
            /\ extraidos' = e
            /\ reloj' = fecha_scraping
            /\ IF (\A t \in TiendasConScraper : ~e[t].ok) \/ todos_los_productos = <<>>
               THEN UNCHANGED <<esquema, tiendas, productos, precios, lote, fallo>>
               ELSE /\ esquema' = TRUE
                    /\ guardar_en_db(todos_los_productos, fecha_scraping)
            /\ UNCHANGED <<llamada, ret, varsAlertas>>

Next == GuardarEnDb(Entradas)

Spec == Init /\ [][Next]_vars

NextHistoria == GuardarEnDb(EntradasHistoria)

SpecHistoria == Init /\ [][NextHistoria]_vars

NextUnidad == GuardarUnRegistro(EntradasUnidad)

SpecUnidad == Init /\ [][NextUnidad]_vars

NextEscenario == GuardarEnDb(EntradasEscenario)

SpecEscenario == Init /\ [][NextEscenario]_vars

NextValidacion == GuardarEnDb(EntradasValidacion)

SpecValidacion == Init /\ [][NextValidacion]_vars

NextDescuento == GuardarEnDb(EntradasDescuento)

SpecDescuento == Init /\ [][NextDescuento]_vars

NextMarca == GuardarEnDb(EntradasMarca)

SpecMarca == Init /\ [][NextMarca]_vars

NextAhorro == GuardarEnDb(EntradasAhorro)

SpecAhorro == Init /\ [][NextAhorro]_vars

NextCategoria == GuardarEnDb(EntradasCategoria)

SpecCategoria == Init /\ [][NextCategoria]_vars

NextTalla == GuardarEnDb(EntradasTalla)

SpecTalla == Init /\ [][NextTalla]_vars

NextConsolidado == GuardarEnDb(EntradasConsolidado)

SpecConsolidado == Init /\ [][NextConsolidado]_vars

NextFrescura == EjecutarMain

SpecFrescura == Init /\ [][NextFrescura]_vars

NextSinUrl == GuardarEnDb(EntradasSinUrl)

SpecSinUrl == Init /\ [][NextSinUrl]_vars

NextFalla ==
    \/ GuardarEnDb(EntradasFalla)
    \/ GuardarEnDbFalla(EntradasFalla)

SpecFalla == Init /\ [][NextFalla]_vars

NextIdentidad == LlamarProducto

SpecIdentidad == Init /\ [][NextIdentidad]_vars

-----------------------------------------------------------------------------
(* The read path of app.py.  SQLite returns the bare columns of a GROUP BY    *)
(* from an arbitrary row of each group, and rows with equal ORDER BY keys in  *)
(* an arbitrary order: a query is the set of the results it may return.       *)
(* Before inicializar_db has run the first SELECT of a query raises           *)
(* sqlite3.OperationalError (no such table: precios): it returns nothing.     *)

\* SELECT MAX(fecha_scraping) FROM precios
UltimaFecha ==
    IF precios = <<>> THEN NULL
    ELSE Max({precios[i].fecha_scraping : i \in 1..Len(precios)})

\* SQL LOWER() on the brands
Lower(m) ==
    CASE m = "HUGGIES" -> "huggies" [] m = "Huggies" -> "huggies"
      [] m = "Nan" -> "nan" [] m = "NAN OPTIPRO" -> "nan optipro"
      [] m = "Nan Optipro" -> "nan optipro" [] OTHER -> m

\* marca.strip().title()
Title(m) ==
    CASE m = "HUGGIES" -> "Huggies" [] m = "huggies" -> "Huggies"
      [] m = "nan" -> "Nan" [] m = "NAN OPTIPRO" -> "Nan Optipro"
      [] m = "nan optipro" -> "Nan Optipro" [] OTHER -> m

\* normalizar_marca, with MARCA_ALIASES
normalizar_marca(m) ==
    IF m = "" THEN ""
    ELSE IF Title(m) = "Nan Optipro" THEN "Nan" ELSE Title(m)

\* the place of a text among the texts of the model in SQLite's BINARY order
RangoTexto(x) ==
    CASE x = "" -> 0 [] x = "Farmacias Ahumada" -> 1 [] x = "HUGGIES" -> 2
      [] x = "Huggies" -> 3 [] x = "Jumbo" -> 4 [] x = "Liquimax" -> 5
      [] x = "NAN OPTIPRO" -> 6 [] x = "Nan" -> 7 [] x = "Nan Optipro" -> 8
      [] x = "Santa Isabel" -> 9 [] OTHER -> 10

\* the row of the join "precios pr JOIN productos p JOIN tiendas t" for pr = i
Union(i) ==
    [fila |-> i,
     nombre |-> productos[precios[i].producto_id].nombre,
     marca |-> productos[precios[i].producto_id].marca,
     tamano_unidades |-> productos[precios[i].producto_id].tamano_unidades,
     url |-> productos[precios[i].producto_id].url,
     imagen_url |-> productos[precios[i].producto_id].imagen_url,
     precio |-> precios[i].precio,
     precio_por_unidad |-> precios[i].precio_por_unidad,
     precio_lista |-> precios[i].precio_lista,
     tienda |-> tiendas[precios[i].tienda_id].nombre]

\* a variant of DeLaFecha that takes the rows of every run
DeLaFecha_Todas(i, fecha) == TRUE

\* WHERE pr.fecha_scraping = ?
DeLaFecha(i, fecha) == precios[i].fecha_scraping = fecha

\* the WHERE clause of buscar_productos
FilasSql(marca, tiendas_sel, precio_max, busqueda) ==
    {i \in 1..Len(precios) :
        /\ DeLaFecha(i, UltimaFecha)
        /\ precios[i].precio # NULL
        /\ EsListable(Union(i).nombre)
        /\ marca # "" => Lower(Union(i).marca) = Lower(marca)
        /\ tiendas_sel # {} => Union(i).tienda \in tiendas_sel
        /\ Truthy(precio_max) => precios[i].precio <= precio_max
        /\ busqueda \subseteq Palabras(Union(i).nombre)}

\* GROUP BY p.id, t.id
Grupo(i) == <<precios[i].producto_id, precios[i].tienda_id>>

\* the ways of keeping one row of every group of the rows F
Representantes(F) ==
    {R \in SUBSET F :
        \A i \in F : Cardinality({j \in R : Grupo(j) = Grupo(i)}) = 1}

\* a variant of AntesPpu that forgets to put the NULLs last
AntesPpu_NullPrimero(a, b) ==
    \/ a.precio_por_unidad < b.precio_por_unidad
    \/ a.precio_por_unidad = b.precio_por_unidad /\ a.precio <= b.precio

\* ORDEN_PERMITIDO["precio_por_unidad"]: NULLs last, then unit price, then price
AntesPpu(a, b) ==
    LET na == IF a.precio_por_unidad = NULL THEN 1 ELSE 0
        nb == IF b.precio_por_unidad = NULL THEN 1 ELSE 0
    IN  \/ na < nb
        \/ na = nb /\ a.precio_por_unidad < b.precio_por_unidad
        \/ na = nb /\ a.precio_por_unidad = b.precio_por_unidad
                   /\ a.precio <= b.precio

\* a variant of Antes that sorts by price under an unknown sort key
Antes_PorPrecio(a, b, orden) ==
    CASE orden = "precio_por_unidad" -> AntesPpu(a, b)
      [] orden = "marca" ->
            \/ RangoTexto(a.marca) < RangoTexto(b.marca)
            \/ a.marca = b.marca /\ a.precio <= b.precio
      [] orden = "tienda" ->
            \/ RangoTexto(a.tienda) < RangoTexto(b.tienda)
            \/ a.tienda = b.tienda /\ a.precio <= b.precio
      [] OTHER -> a.precio <= b.precio

\* ORDEN_PERMITIDO.get(orden, ORDEN_PERMITIDO["precio_por_unidad"]): may row a
\* come before row b under the sort key `orden`
Antes(a, b, orden) ==
    CASE orden = "precio" -> a.precio <= b.precio
      [] orden = "marca" ->
            \/ RangoTexto(a.marca) < RangoTexto(b.marca)
            \/ a.marca = b.marca /\ a.precio <= b.precio
      [] orden = "tienda" ->
            \/ RangoTexto(a.tienda) < RangoTexto(b.tienda)
            \/ a.tienda = b.tienda /\ a.precio <= b.precio
      [] OTHER -> AntesPpu(a, b)

\* ORDER BY: the orderings of the rows R that respect the sort key
Ordenadas(R, orden) ==
    {s \in [1..Cardinality(R) -> R] :
        /\ \A a, b \in 1..Cardinality(R) : s[a] = s[b] => a = b
        /\ \A a, b \in 1..Cardinality(R) :
              a < b => Antes(Union(s[a]), Union(s[b]), orden)}

\* a variant of Descuento without the "and precio"
Descuento_SinPrecio(precio_lista, precio) ==
    IF Truthy(precio_lista) /\ precio_lista > precio
    THEN RoundDiv((precio_lista - precio) * 100, precio_lista)
    ELSE NULL

\* the discount of buscar_productos, lines 486-494
Descuento(precio_lista, precio) ==
    IF Truthy(precio_lista) /\ Truthy(precio) /\ precio_lista > precio
    THEN RoundDiv((precio_lista - precio) * 100, precio_lista)
    ELSE NULL

\* the dict buscar_productos builds of a row
Producto(i) ==
    LET u == Union(i)
        d == Descuento(u.precio_lista, u.precio)
    IN  [fila |-> i, nombre |-> u.nombre, marca |-> u.marca,
         tamano_unidades |-> u.tamano_unidades, url |-> u.url,
         imagen_url |-> u.imagen_url, precio |-> u.precio,
         precio_por_unidad |-> u.precio_por_unidad,
         precio_lista |-> IF d = NULL THEN NULL ELSE u.precio_lista,
         tienda |-> u.tienda,
         talla |-> detectar_talla(u.nombre),
         marca_normalizada |-> normalizar_marca(u.marca),
         categoria |-> detectar_categoria(u.nombre),
         descuento_pct |-> d]

\* a variant of ExigePpu that lists every record
ExigePpu_Nunca(pr) == TRUE

\* lines 508-510: but for formulas, a record must have a unit price
ExigePpu(pr) ==
    pr.categoria = "Formulas Infantiles" \/ Truthy(pr.precio_por_unidad)

\* a variant of Pasa without the size filter
Pasa_SinTalla(pr, talla, tallas_edad, categoria, producto_param) ==
    /\ tallas_edad # {} => pr.talla \in tallas_edad
    /\ categoria # "" => pr.categoria = categoria
    /\ producto_param # <<>> => pr.nombre = producto_param
    /\ ExigePpu(pr)

\* the filters buscar_productos applies in Python, lines 496-510
Pasa(pr, talla, tallas_edad, categoria, producto_param) ==
    /\ talla # "" => pr.talla = talla
    /\ tallas_edad # {} => pr.talla \in tallas_edad
    /\ categoria # "" => pr.categoria = categoria
    /\ producto_param # <<>> => pr.nombre = producto_param
    /\ ExigePpu(pr)

\* buscar_productos: the results [resultados, ultima_fecha] it may return.
\* An absent filter is "", {} or NULL; busqueda is the set of words searched.
buscar_productos(marca, talla, tallas_edad, tiendas_sel, precio_max, busqueda, categoria, producto_param, orden) ==
    IF ~esquema THEN {}
    ELSE IF UltimaFecha = NULL THEN {[resultados |-> <<>>, ultima_fecha |-> NULL]}
    ELSE LET F == FilasSql(marca, tiendas_sel, precio_max, busqueda)
             Filtro(pr) == Pasa(pr, talla, tallas_edad, categoria, producto_param)
         IN  {[resultados |-> SelectSeq([k \in 1..Len(s) |-> Producto(s[k])], Filtro),
               ultima_fecha |-> UltimaFecha] :
                 s \in UNION {Ordenadas(R, orden) : R \in Representantes(F)}}

\* ORDEN_PERMITIDO: the sort keys the index page accepts
ORDEN_PERMITIDO == {"precio_por_unidad", "precio", "marca", "tienda"}

\* calcular_ahorro(productos), res being the list productos: None is given as
\* <<>>, the dict as a sequence of one record; porcentaje is given in whole
\* per cent, rounded down
calcular_ahorro(res) ==
    LET con_ppu == SelectSeq(res, LAMBDA x : Truthy(x.precio_por_unidad))
    IN  IF Len(res) < 2 \/ Len(con_ppu) < 2 THEN <<>>
        ELSE LET mejor == con_ppu[1]
                 peor == con_ppu[Len(con_ppu)]
                 diferencia == peor.precio_por_unidad - mejor.precio_por_unidad
             IN  <<[mejor |-> mejor, peor |-> peor,
                    diferencia_por_unidad |-> diferencia,
                    porcentaje |-> (diferencia * 100) \div peor.precio_por_unidad,
                    panales_mes |-> 180,
                    ahorro_mensual |-> diferencia * 180,
                    ahorro_anual |-> diferencia * 180 * 12]>>

\* _render_index with a brand filter and the sort key of the request: the
\* values of 'ahorro' it may hand to the template
AhorroDelIndice(marca_sel, orden) ==
    LET orden_actual == IF orden \in ORDEN_PERMITIDO THEN orden ELSE "precio_por_unidad"
    IN  {calcular_ahorro(r.resultados) :
            r \in buscar_productos(marca_sel, "", {}, {}, NULL, {}, "", <<>>,
                                   orden_actual)}

\* a variant of MejorPorTalla that keeps the last record of every size
MejorPorTalla_Ultimo(res) ==
    [t \in {res[k].talla : k \in 1..Len(res)} \ {SIN_TALLA} |->
        res[Max({k \in 1..Len(res) : res[k].talla = t})]]

\* the loop of obtener_top_por_talla: the first record of every size
MejorPorTalla(res) ==
    [t \in {res[k].talla : k \in 1..Len(res)} \ {SIN_TALLA} |->
        res[Min({k \in 1..Len(res) : res[k].talla = t})]]

\* obtener_top_por_talla: the mappings size -> record it may return
obtener_top_por_talla(marca, tiendas_sel, precio_max, busqueda, categoria) ==
    {MejorPorTalla(r.resultados) :
        r \in buscar_productos(marca, "", {}, tiendas_sel, precio_max, busqueda,
                               categoria, <<>>, "precio_por_unidad")}

\* what obtener_opciones_filtros returns when no run has been stored
OpcionesVacias == ("" :> [marcas |-> {}, tallas_por_marca |-> ("" :> {})])

\* the rows obtener_opciones_filtros keeps of its SELECT: the listable rows of
\* the latest run with a price, a normalised brand and (but for formulas) a
\* unit price
FilasOpciones ==
    {i \in 1..Len(precios) :
        /\ precios[i].fecha_scraping = UltimaFecha
        /\ precios[i].precio # NULL
        /\ EsListable(Union(i).nombre)
        /\ normalizar_marca(Union(i).marca) # ""
        /\ ExigePpu(Producto(i))}

\* datos[cat][m]: the sizes met for the brand m in the category cat
TallasDe(cats, m) ==
    {Producto(i).talla : i \in {j \in FilasOpciones :
        /\ Producto(j).categoria \in cats
        /\ m \in {"", Producto(j).marca_normalizada}}} \ {SIN_TALLA}

\* the brands met in the categories cats
MarcasDe(cats) ==
    {Producto(i).marca_normalizada :
        i \in {j \in FilasOpciones : Producto(j).categoria \in cats}}

\* productos_formulas: the names of the formulas of the brand m
NombresDe(m) ==
    {Producto(i).nombre : i \in {j \in FilasOpciones :
        /\ Producto(j).categoria = "Formulas Infantiles"
        /\ m \in {"", Producto(j).marca_normalizada}}}

\* opciones[cat]; a sorted list without repetitions is given as its set
OpcionesDe(cat) ==
    LET M == MarcasDe({cat})
        T == IF cat \in {"Toallitas Humedas", "Formulas Infantiles"} THEN <<>>
             ELSE [m \in M \cup {""} |-> TallasDe({cat}, m)]
    IN  IF cat = "Formulas Infantiles"
        THEN [marcas |-> M, tallas_por_marca |-> T,
              productos_por_marca |-> [m \in M \cup {""} |-> NombresDe(m)]]
        ELSE [marcas |-> M, tallas_por_marca |-> T]

\* obtener_opciones_filtros: the mappings category -> options it may return
obtener_opciones_filtros ==
    IF ~esquema THEN {}
    ELSE IF UltimaFecha = NULL THEN {OpcionesVacias}
    ELSE LET C  == {Producto(i).categoria : i \in FilasOpciones}
             M  == MarcasDe(C)
         IN  {[c \in C \cup {""} |->
                 IF c = "" THEN [marcas |-> M,
                                 tallas_por_marca |->
                                     [m \in M \cup {""} |-> TallasDe(C, m)]]
                 ELSE OpcionesDe(c)]}

\* a variant of FilasDeProducto that keeps the last run only
FilasDeProducto_UltimaFecha(producto_id) ==
    {i \in 1..Len(precios) : /\ precios[i].producto_id = producto_id
                             /\ precios[i].fecha_scraping = UltimaFecha}

\* WHERE pr.producto_id = ?
FilasDeProducto(producto_id) ==
    {i \in 1..Len(precios) : precios[i].producto_id = producto_id}

\* historico: datos_historico of producto_id, ORDER BY fecha_scraping ASC
datos_historico(producto_id) ==
    LET R == FilasDeProducto(producto_id)
    IN  IF ~esquema THEN {} ELSE
        {[k \in 1..Cardinality(R) |->
            [fila |-> s[k], precio |-> precios[s[k]].precio,
             precio_por_unidad |-> precios[s[k]].precio_por_unidad,
             fecha_scraping |-> precios[s[k]].fecha_scraping]] :
          s \in {s \in [1..Cardinality(R) -> R] :
                    /\ \A a, b \in 1..Cardinality(R) : s[a] = s[b] => a = b
                    /\ \A a, b \in 1..Cardinality(R) :
                          a < b => precios[s[a]].fecha_scraping
                                     <= precios[s[b]].fecha_scraping}}

\* a numeric cell of the consolidated CSV: None is written as the empty text
Celda(v) == IF v = NULL THEN <<>> ELSE <<v>>

\* leer_datos on a cell: the empty text is None, digits are their int
LeerCelda(c) == IF c = <<>> THEN NULL ELSE c[1]

\* leer_datos of analysis.py over the consolidated CSV of the records
leer_datos(registros) ==
    [k \in 1..Len(registros) |->
        [registros[k] EXCEPT
            !.precio = LeerCelda(Celda(@)),
            !.cantidad_unidades = LeerCelda(Celda(@)),
            !.precio_por_unidad = LeerCelda(Celda(@))]]

\* generar_top_ofertas of analysis.py on the records of the last run: those
\* with a unit price, stably sorted by it, the first n
RECURSIVE InsertarOrdenado(_, _)
InsertarOrdenado(s, p) ==
    IF s = <<>> THEN <<p>>
    ELSE IF s[Len(s)].precio_por_unidad <= p.precio_por_unidad THEN Append(s, p)
    ELSE Append(InsertarOrdenado(SubSeq(s, 1, Len(s) - 1), p), s[Len(s)])

RECURSIVE OrdenarPorPpu(_)
OrdenarPorPpu(s) ==
    IF s = <<>> THEN <<>>
    ELSE InsertarOrdenado(OrdenarPorPpu(SubSeq(s, 1, Len(s) - 1)), s[Len(s)])

\* line 311: p["precio_por_unidad"] is not None
ConPpu(p) == p.precio_por_unidad # NULL

\* generar_top_ofertas(productos, n): the records it prints
generar_top_ofertas(registros, n) ==
    LET orden == OrdenarPorPpu(SelectSeq(registros, ConPpu))
    IN  SubSeq(orden, 1, IF Len(orden) < n THEN Len(orden) ELSE n)

\* a variant of IndiceMinimo that returns the last place of the least value
IndiceMinimo_Ultimo(valores) ==
    Max({i \in 1..Len(valores) : \A j \in 1..Len(valores) : valores[i] <= valores[j]})

\* Python's min(lista, key=...): the first place of the least of the values
IndiceMinimo(valores) ==
    Min({i \in 1..Len(valores) : \A j \in 1..Len(valores) : valores[i] <= valores[j]})

\* por_tienda[tienda] of generar_resumen_general, as places of the records
PorTienda(registros, tienda) ==
    LET DeTienda(k) == registros[k].tienda = tienda
    IN  SelectSeq([k \in 1..Len(registros) |-> k], DeTienda)

\* generar_mas_barato_por_tienda(por_tienda): for every store with a priced
\* record, the places of the record named cheapest by price and of the one
\* named cheapest by unit, 0 when the store has no record with unit price
generar_mas_barato_por_tienda(registros) ==
    LET ConPrecio(k) == registros[k].precio # NULL
        ConUnidad(k) == registros[k].precio_por_unidad # NULL
        T == {registros[k].tienda : k \in {j \in 1..Len(registros) : ConPrecio(j)}}
    IN  [t \in T |->
            LET con_precio == SelectSeq(PorTienda(registros, t), ConPrecio)
                con_ppu == SelectSeq(PorTienda(registros, t), ConUnidad)
            IN  [mas_barato |->
                     con_precio[IndiceMinimo(
                         [k \in 1..Len(con_precio) |-> registros[con_precio[k]].precio])],
                 mas_barato_ppu |->
                     IF con_ppu = <<>> THEN 0
                     ELSE con_ppu[IndiceMinimo(
                              [k \in 1..Len(con_ppu) |->
                                  registros[con_ppu[k]].precio_por_unidad])]]]

-----------------------------------------------------------------------------
(* Price alerts: alertas.py.  The clock counts days: an e-mail recorded on   *)
(* the day of the check is within the last 24 hours, an earlier one is not.  *)

\* The subscriptions crear_alerta is called with: one product, or a group of
\* brand, size and quantity; "" and NULL are the arguments left out.
Suscripciones ==
    [tipo : {"producto"}, producto_id : {1}, marca : {""}, talla : {""},
     cantidad : {NULL}, precio_objetivo : {200, 280}]
    \cup
    [tipo : {"grupo"}, producto_id : {NULL}, marca : {"huggies"}, talla : {"", "G"},
     cantidad : {NULL, 2}, precio_objetivo : {200, 280}]

\* The records of the alert runs: the diaper of size G at two stores, at one
\* of them also without count and so without unit price.
EntradasAlerta ==
    {Registro(NomPanalG, 600, "HUGGIES", 2, PpuScraper(600, 2), "u1", "Liquimax", "", NULL),
     Registro(NomPanalG, 240, "HUGGIES", NULL, PpuScraper(240, NULL), "u1", "Liquimax", "", NULL),
     Registro(NomPanalG, 500, "Huggies", 2, PpuScraper(500, 2), "u2", "Jumbo", "", NULL),
     Registro(NomPanalG, 600, "Huggies", 2, PpuScraper(600, 2), "u2", "Jumbo", "", NULL)}

\* crear_alerta: the row inserted, pending confirmation
crear_alerta(a) ==
    Append(alertas, [tipo |-> a.tipo, producto_id |-> a.producto_id,
                     marca |-> a.marca, talla |-> a.talla, cantidad |-> a.cantidad,
                     precio_objetivo |-> a.precio_objetivo,
                     confirmada |-> 0, activa |-> 1])

\* confirmar_alerta: UPDATE alertas SET confirmada = 1 WHERE token = ?
confirmar_alerta(token) ==
    [i \in 1..Len(alertas) |->
        IF i = token THEN [alertas[i] EXCEPT !.confirmada = 1] ELSE alertas[i]]

\* cancelar_alerta: UPDATE alertas SET activa = 0 WHERE token = ?
cancelar_alerta(token) ==
    [i \in 1..Len(alertas) |->
        IF i = token THEN [alertas[i] EXCEPT !.activa = 0] ELSE alertas[i]]

\* a variant of AlertasVigentes that selects the cancelled alerts as well
AlertasVigentes_SinActiva == {i \in 1..Len(alertas) : alertas[i].confirmada = 1}

\* SELECT * FROM alertas WHERE confirmada = 1 AND activa = 1
AlertasVigentes ==
    {i \in 1..Len(alertas) : alertas[i].confirmada = 1 /\ alertas[i].activa = 1}

\* a variant of YaEnviada without the limit of one e-mail in 24 hours
YaEnviada_Nunca(id, enviadas, ahora) == FALSE

\* an e-mail of the alert was recorded in the last 24 hours
YaEnviada(id, enviadas, ahora) ==
    \E k \in 1..Len(enviadas) :
        enviadas[k].alerta_id = id /\ enviadas[k].fecha_envio > ahora - 1

\* the product alert: the rows of the product in the last run that may come
\* first under ORDER BY pr.precio_por_unidad ASC, where SQLite puts NULL first
FilasAlertaProducto(a) ==
    LET R == {i \in 1..Len(precios) : /\ precios[i].producto_id = a.producto_id
                                      /\ precios[i].fecha_scraping = UltimaFecha}
        Clave(i) == IF precios[i].precio_por_unidad = NULL THEN <<0, 0>>
                    ELSE <<1, precios[i].precio_por_unidad>>
    IN  {i \in R : \A j \in R : \/ Clave(i)[1] < Clave(j)[1]
                                \/ Clave(i)[1] = Clave(j)[1] /\ Clave(i)[2] <= Clave(j)[2]}

\* COALESCE(pr.precio_por_unidad, pr.precio)
Coalesce(i) ==
    IF precios[i].precio_por_unidad # NULL THEN precios[i].precio_por_unidad
    ELSE precios[i].precio

\* the group alert: the rows of the last run with a price, of the brand and,
\* when the alert has them, of the quantity and the size, that may come first
\* under ORDER BY COALESCE(pr.precio_por_unidad, pr.precio) ASC.  The code takes
\* the first row of the brand and quantity and, when its size is not the
\* alert's, the first row of that size in the same order: in both cases a
\* first row among those of the size.
FilasAlertaGrupo(a) ==
    LET G == {i \in 1..Len(precios) :
                /\ precios[i].fecha_scraping = UltimaFecha
                /\ precios[i].precio # NULL
                /\ a.marca # ""
                /\ Lower(Union(i).marca) = Lower(a.marca)
                /\ Truthy(a.cantidad) => Union(i).tamano_unidades = a.cantidad
                /\ a.talla # "" => detectar_talla(Union(i).nombre) = a.talla}
    IN  {i \in G : \A j \in G : Coalesce(i) <= Coalesce(j)}

\* the rows verificar_alertas may take for an alert
FilasAlerta(a) ==
    IF a.tipo = "producto" /\ Truthy(a.producto_id) THEN FilasAlertaProducto(a)
    ELSE IF a.tipo = "grupo" THEN FilasAlertaGrupo(a)
    ELSE {}

\* a variant of PrecioActual that compares the total price
PrecioActual_Total(i) == precios[i].precio

\* precio_actual = row["precio_por_unidad"] or row["precio"]
PrecioActual(i) ==
    IF Truthy(precios[i].precio_por_unidad) THEN precios[i].precio_por_unidad
    ELSE precios[i].precio

\* a variant of Registrar that records the attempt whether or not the e-mail
\* was sent
Registrar_Siempre(enviadas, k, i, ahora, enviado) ==
    Append(enviadas, [alerta_id |-> k, precio_encontrado |-> PrecioActual(i),
                      tienda |-> Union(i).tienda, fecha_envio |-> ahora])

\* if enviado: INSERT INTO alertas_enviadas (alerta_id, precio_encontrado,
\* tienda, fecha_envio)
Registrar(enviadas, k, i, ahora, enviado) ==
    IF enviado
    THEN Append(enviadas, [alerta_id |-> k, precio_encontrado |-> PrecioActual(i),
                           tienda |-> Union(i).tienda, fecha_envio |-> ahora])
    ELSE enviadas

\* the loop of verificar_alertas from the k-th alert on: the outcomes
\* [enviadas, correos] it may end with, Resend accepting an e-mail or not
RECURSIVE VerificarDesde(_, _, _, _)
VerificarDesde(k, enviadas, salida, ahora) ==
    IF k > Len(alertas) THEN {[enviadas |-> enviadas, correos |-> salida]}
    ELSE IF k \notin AlertasVigentes \/ YaEnviada(k, enviadas, ahora)
              \/ FilasAlerta(alertas[k]) = {}
    THEN VerificarDesde(k + 1, enviadas, salida, ahora)
    ELSE UNION {
           IF PrecioActual(i) # NULL /\ PrecioActual(i) <= alertas[k].precio_objetivo
           THEN UNION {
                  VerificarDesde(k + 1, Registrar(enviadas, k, i, ahora, enviado),
                     Append(salida, [alerta_id |-> k, fila |-> i,
                                     precio_actual |-> PrecioActual(i),
                                     tienda |-> Union(i).tienda,
                                     enviado |-> enviado]),
                     ahora) : enviado \in BOOLEAN}
           ELSE VerificarDesde(k + 1, enviadas, salida, ahora) :
           i \in FilasAlerta(alertas[k])}

\* verificar_alertas(db_path): the outcomes it may end with; none when the
\* SELECT on precios raises for want of the table
verificar_alertas(ahora) ==
    IF AlertasVigentes = {} THEN {[enviadas |-> alertas_enviadas, correos |-> <<>>]}
    ELSE IF ~esquema THEN {}
    ELSE IF UltimaFecha = NULL THEN {[enviadas |-> alertas_enviadas, correos |-> <<>>]}
    ELSE VerificarDesde(1, alertas_enviadas, <<>>, ahora)

CrearAlerta ==
    \E a \in Suscripciones :
        /\ Len(alertas) < MaxAlertas
        /\ alertas' = crear_alerta(a)
        /\ UNCHANGED <<esquema, tiendas, productos, precios, reloj, lote, llamada,
                       ret, fallo, alertas_enviadas, correos, varsScrapers>>

ConfirmarAlerta ==
    \E token \in 1..MaxAlertas :
        /\ alertas' = confirmar_alerta(token)
        /\ UNCHANGED <<esquema, tiendas, productos, precios, reloj, lote, llamada,
                       ret, fallo, alertas_enviadas, correos, varsScrapers>>

CancelarAlerta ==
    \E token \in 1..MaxAlertas :
        /\ alertas' = cancelar_alerta(token)
        /\ UNCHANGED <<esquema, tiendas, productos, precios, reloj, lote, llamada,
                       ret, fallo, alertas_enviadas, correos, varsScrapers>>

VerificarAlertas ==
    \E r \in verificar_alertas(reloj) :
        /\ Len(r.enviadas) <= MaxEnviadas
        /\ alertas_enviadas' = r.enviadas
        /\ correos' = r.correos
        /\ UNCHANGED <<esquema, tiendas, productos, precios, reloj, lote, llamada,
                       ret, fallo, alertas, varsScrapers>>

NextAlertas ==
    \/ GuardarEnDb(EntradasAlerta)
    \/ CrearAlerta
    \/ ConfirmarAlerta
    \/ CancelarAlerta
    \/ VerificarAlertas

SpecAlertas == Init /\ [][NextAlertas]_vars

\* runs that may fail, alerts and their verification, from a new installation
NextVacio ==
    \/ GuardarEnDb(EntradasAlerta)
    \/ GuardarEnDbFalla(EntradasAlerta)
    \/ CrearAlerta
    \/ ConfirmarAlerta
    \/ VerificarAlertas

SpecVacio == Init /\ [][NextVacio]_vars

\* most alerts of the runs that follow two subscriptions through their life
MaxAlertasCiclo == 2

\* The subscriptions of the life-cycle runs: the product and the brand.
SuscripcionesCiclo ==
    {[tipo |-> "producto", producto_id |-> 1, marca |-> "", talla |-> "",
      cantidad |-> NULL, precio_objetivo |-> 280],
     [tipo |-> "grupo", producto_id |-> NULL, marca |-> "huggies", talla |-> "",
      cantidad |-> NULL, precio_objetivo |-> 280]}

\* The records of the life-cycle runs: the diaper of size G at 250 and at 300
\* a unit.
EntradasCiclo ==
    {Registro(NomPanalG, 500, "Huggies", 2, PpuScraper(500, 2), "u1", "Jumbo", "", NULL),
     Registro(NomPanalG, 600, "Huggies", 2, PpuScraper(600, 2), "u1", "Jumbo", "", NULL)}

\* POST /alerta/crear/ while the table holds fewer than MaxAlertasCiclo rows
CrearAlertaCiclo ==
    \E a \in SuscripcionesCiclo :
        /\ Len(alertas) < MaxAlertasCiclo
        /\ alertas' = crear_alerta(a)
        /\ UNCHANGED <<esquema, tiendas, productos, precios, reloj, lote, llamada,
                       ret, fallo, alertas_enviadas, correos, varsScrapers>>

\* GET /alerta/confirmar/<token>/
ConfirmarAlertaCiclo ==
    \E token \in 1..MaxAlertasCiclo :
        /\ alertas' = confirmar_alerta(token)
        /\ UNCHANGED <<esquema, tiendas, productos, precios, reloj, lote, llamada,
                       ret, fallo, alertas_enviadas, correos, varsScrapers>>

\* GET /alerta/cancelar/<token>/
CancelarAlertaCiclo ==
    \E token \in 1..MaxAlertasCiclo :
        /\ alertas' = cancelar_alerta(token)
        /\ UNCHANGED <<esquema, tiendas, productos, precios, reloj, lote, llamada,
                       ret, fallo, alertas_enviadas, correos, varsScrapers>>

\* runs of the scrapers and two subscriptions created, confirmed, cancelled
\* and verified in any order
NextCiclo ==
    \/ GuardarEnDb(EntradasCiclo)
    \/ CrearAlertaCiclo
    \/ ConfirmarAlertaCiclo
    \/ CancelarAlertaCiclo
    \/ VerificarAlertas

SpecCiclo == Init /\ [][NextCiclo]_vars

-----------------------------------------------------------------------------
(* Identity resolution: obtener_o_crear_producto. *)

\* the rows of productos before the step that kept their place afterwards
MismoLugar == 1..Len(productos)

\* C1 as the specification has it: over any sequence of obtener_o_crear_producto calls the stored
\* tamano_unidades of a url changes only from null to a non-null incoming
\* value, and is never reverted to null or overwritten afterwards.
C1_SoloDesdeNull ==
    [][\A i \in MismoLugar :
          productos'[i].tamano_unidades # productos[i].tamano_unidades
          => /\ productos[i].tamano_unidades = NULL
             /\ productos'[i].tamano_unidades # NULL
             /\ productos'[i].tamano_unidades = llamada'.tamano_unidades]_vars

\* C1 as the code has it: the stored tamano_unidades of a url changes only from null or 0
\* to the non-null, non-zero count of the call on that url; a stored non-zero
\* count is never reverted to null nor overwritten by a different count.
C1_RellenoMonotono ==
    [][\A i \in MismoLugar :
          /\ productos'[i].url = productos[i].url
          /\ productos'[i].tamano_unidades # productos[i].tamano_unidades
             => /\ productos[i].tamano_unidades \in {NULL, 0}
                /\ productos'[i].tamano_unidades \notin {NULL, 0}
                /\ productos'[i].tamano_unidades = llamada'.tamano_unidades
                /\ productos[i].url = llamada'.url
          /\ productos[i].tamano_unidades \notin {NULL, 0}
             => productos'[i].tamano_unidades = productos[i].tamano_unidades]_vars

\* C1 witness: a url stored with count 70 has just been resolved again with a
\* null count (and another with a different count), and kept its 70.
C1_Testigo ==
    /\ ret \in 1..Len(productos)
    /\ productos[ret].tamano_unidades = 70
    /\ productos[ret].url = llamada.url
    /\ llamada.tamano_unidades = NULL

-----------------------------------------------------------------------------
(* The historical store: guardar_en_db. *)

\* the precios row written for record k of the last batch
FilaDe(k) == Len(precios) - Len(lote) + k

-----------------------------------------------------------------------------
(* The unit price guardar_en_db stores. *)

EsFormula(p) == detectar_categoria(p.nombre) = "Formulas Infantiles"

\* r is a / b rounded to the nearest integer, a half to the even one
EsRedondeo(r, a, b) ==
    /\ 2 * (a - r * b) <= b
    /\ 2 * (r * b - a) <= b
    /\ (2 * (a - r * b) = b \/ 2 * (r * b - a) = b) => r % 2 = 0

\* C6: for a formula record with a price and a gram count the stored unit
\* price is the price per kilogram, round(precio / cantidad_unidades * 1000);
\* 8990 with 800 g is stored as 11238.
C6_FormulaPorKilo ==
    \A k \in 1..Len(lote) :
        (EsFormula(lote[k]) /\ Truthy(lote[k].precio)
            /\ Truthy(lote[k].cantidad_unidades))
        => /\ EsRedondeo(precios[FilaDe(k)].precio_por_unidad,
                         lote[k].precio * 1000, lote[k].cantidad_unidades)
           /\ (lote[k].precio = 8990 /\ lote[k].cantidad_unidades = 800)
              => precios[FilaDe(k)].precio_por_unidad = 11238

\* C7: when a record carries a store-supplied precio_por_unidad, the stored
\* unit price is that figure; the computed value is only a fallback.
C7_FiguraDeLaTienda ==
    \A k \in 1..Len(lote) :
        lote[k].precio_por_unidad # NULL
        => precios[FilaDe(k)].precio_por_unidad = lote[k].precio_por_unidad

\* C8 as the specification has it: for a non-formula record with no supplied figure the stored
\* unit price is round(precio / cantidad_unidades) when both are present and
\* cantidad_unidades > 0, and null otherwise.
C8_RedondeoONull ==
    \A k \in 1..Len(lote) :
        (~EsFormula(lote[k]) /\ lote[k].precio_por_unidad = NULL)
        => IF /\ lote[k].precio # NULL
              /\ lote[k].cantidad_unidades # NULL
              /\ lote[k].cantidad_unidades > 0
           THEN EsRedondeo(precios[FilaDe(k)].precio_por_unidad,
                           lote[k].precio, lote[k].cantidad_unidades)
           ELSE precios[FilaDe(k)].precio_por_unidad = NULL

\* C8 as the code has it: for a non-formula record with no supplied figure the stored
\* unit price is round(precio / cantidad_unidades) when both are present, precio
\* is not 0 and cantidad_unidades > 0 (16990 / 68 gives 250), and null
\* otherwise: a missing value is never stored as 0.
C8_RedondeoSiPrecio ==
    \A k \in 1..Len(lote) :
        (~EsFormula(lote[k]) /\ lote[k].precio_por_unidad = NULL)
        => IF /\ lote[k].precio # NULL
              /\ lote[k].precio # 0
              /\ lote[k].cantidad_unidades # NULL
              /\ lote[k].cantidad_unidades > 0
           THEN /\ EsRedondeo(precios[FilaDe(k)].precio_por_unidad,
                              lote[k].precio, lote[k].cantidad_unidades)
                /\ (lote[k].precio = 16990 /\ lote[k].cantidad_unidades = 68)
                   => precios[FilaDe(k)].precio_por_unidad = 250
           ELSE precios[FilaDe(k)].precio_por_unidad = NULL

\* C8 witness: a diaper record without a figure, 16990 for 68 units, stored
\* with unit price 250.
C8_Testigo ==
    /\ Len(lote) = 1
    /\ ~EsFormula(lote[1])
    /\ lote[1].precio_por_unidad = NULL
    /\ lote[1].precio = 16990
    /\ lote[1].cantidad_unidades = 68
    /\ precios[1].precio_por_unidad = 250

-----------------------------------------------------------------------------
(* The latest snapshot: buscar_productos. *)

\* the searches examined: by brand, by category and by sort key
Consultas ==
    [marca : {"", "huggies"}, categoria : {"", "Panales"},
     orden : {"precio_por_unidad", "precio"}]

Buscar(q) ==
    buscar_productos(q.marca, "", {}, {}, NULL, {}, q.categoria, <<>>, q.orden)

\* the unfiltered listing under a sort key
Listado(orden) == buscar_productos("", "", {}, {}, NULL, {}, "", <<>>, orden)

EsMaxFecha(f) ==
    IF precios = <<>> THEN f = NULL
    ELSE /\ \E i \in 1..Len(precios) : precios[i].fecha_scraping = f
         /\ \A i \in 1..Len(precios) : precios[i].fecha_scraping <= f

\* C4: after any sequence of runs, every search returns the maximum
\* fecha_scraping present in precios and only records whose observation carries
\* that date: a product observed only in earlier runs never appears and no
\* result mixes run dates.
C4_SoloUltimaFecha ==
    \A q \in Consultas : \A r \in Buscar(q) :
        /\ EsMaxFecha(r.ultima_fecha)
        /\ \A k \in 1..Len(r.resultados) :
              /\ precios[r.resultados[k].fila].fecha_scraping = r.ultima_fecha
              /\ r.resultados[k].precio = precios[r.resultados[k].fila].precio
              /\ \E i \in 1..Len(precios) :
                    /\ productos[precios[i].producto_id].url = r.resultados[k].url
                    /\ EsMaxFecha(precios[i].fecha_scraping)

\* C4 witness: a product with a listable observation in an earlier run and none
\* in the latest one, while the latest run lists another product.
C4_Testigo ==
    /\ \E i \in 1..Len(precios) :
          /\ ~EsMaxFecha(precios[i].fecha_scraping)
          /\ Truthy(precios[i].precio_por_unidad)
          /\ \A j \in 1..Len(precios) :
                precios[j].producto_id = precios[i].producto_id
                   => ~EsMaxFecha(precios[j].fecha_scraping)
    /\ \E r \in Listado("precio_por_unidad") : Len(r.resultados) >= 1

-----------------------------------------------------------------------------
(* The history view: historico. *)

\* the rows of precios of a product, in the order they were recorded
RECURSIVE Registradas(_, _)
Registradas(id, n) ==
    IF n = 0 THEN <<>>
    ELSE IF precios[n].producto_id = id
         THEN Append(Registradas(id, n - 1), precios[n])
         ELSE Registradas(id, n - 1)

\* the product was recorded on three increasing dates at 100, 90 and 95
TresFechas(id) ==
    LET o == Registradas(id, Len(precios))
    IN  /\ Len(o) = 3
        /\ o[1].fecha_scraping < o[2].fecha_scraping
        /\ o[2].fecha_scraping < o[3].fecha_scraping
        /\ <<o[1].precio, o[2].precio, o[3].precio>> = <<100, 90, 95>>

\* C5: datos_historico of a product lists every observation ever recorded for
\* it, each once, in ascending fecha_scraping order; a url recorded on three
\* increasing dates at 100, 90, 95 has the history [100, 90, 95] while the
\* snapshot of the third date, the latest, shows it at 95 only.
C5_HistoriaCompleta ==
    \A id \in 1..Len(productos) : \A h \in datos_historico(id) :
        LET o == Registradas(id, Len(precios))
        IN  /\ Len(h) = Len(o)
            /\ \A i \in 1..Len(precios) :
                  precios[i].producto_id = id
                     => Cardinality({k \in 1..Len(h) : h[k].fila = i}) = 1
            /\ \A k \in 1..Len(h) :
                  /\ h[k].precio = precios[h[k].fila].precio
                  /\ h[k].fecha_scraping = precios[h[k].fila].fecha_scraping
            /\ \A a, b \in 1..Len(h) :
                  a < b => h[a].fecha_scraping <= h[b].fecha_scraping
            /\ TresFechas(id) =>
                  <<h[1].precio, h[2].precio, h[3].precio>> = <<100, 90, 95>>
            /\ (TresFechas(id) /\ EsMaxFecha(o[3].fecha_scraping)) =>
                  \A r \in Listado("precio_por_unidad") :
                        /\ \E k \in 1..Len(r.resultados) :
                              r.resultados[k].url = productos[id].url
                        /\ \A k \in 1..Len(r.resultados) :
                              r.resultados[k].url = productos[id].url
                                 => r.resultados[k].precio = 95

\* C5 witness: a url recorded on three increasing dates at 100, 90 and 95,
\* the third being the latest run.
C5_Testigo ==
    \E id \in 1..Len(productos) :
        /\ TresFechas(id)
        /\ EsMaxFecha(Registradas(id, Len(precios))[3].fecha_scraping)

-----------------------------------------------------------------------------
(* Records without unit price. *)

\* the only observation of its product and store in the latest run
SoloEnGrupo(i) ==
    \A j \in 1..Len(precios) :
        (precios[j].fecha_scraping = precios[i].fecha_scraping
            /\ Grupo(j) = Grupo(i)) => j = i

\* a priced, listable observation of the latest run without unit price
SinPpu(i) ==
    /\ EsMaxFecha(precios[i].fecha_scraping)
    /\ precios[i].precio_por_unidad = NULL
    /\ precios[i].precio # NULL
    /\ EsListable(productos[precios[i].producto_id].nombre)
    /\ SoloEnGrupo(i)

EnListado(i, orden) ==
    \A r \in Listado(orden) : \E k \in 1..Len(r.resultados) : r.resultados[k].fila = i

FueraDeListado(i, orden) ==
    \A r \in Listado(orden) : \A k \in 1..Len(r.resultados) : r.resultados[k].fila # i

FueraDeMejorPorTalla(i) ==
    \A m \in obtener_top_por_talla("", {}, NULL, {}, "") :
        \A t \in DOMAIN m : m[t].fila # i

\* the top-N of the records of the last run holds no record without unit price
TopSinNulos ==
    \A n \in 1..MaxLote :
        LET top == generar_top_ofertas(leer_datos(lote), n)
        IN  \A k \in 1..Len(top) : top[k].precio_por_unidad # NULL

-----------------------------------------------------------------------------
(* The default sort. *)

\* C10: under the default sort the listing is in ascending unit price, every
\* record without unit price after every record with one, and records of equal
\* (or both null) unit price in ascending price.
C10_OrdenPorDefecto ==
    \A r \in Listado("precio_por_unidad") :
        \A a, b \in 1..Len(r.resultados) :
            a < b =>
               LET x == r.resultados[a]
                   y == r.resultados[b]
               IN  /\ x.precio_por_unidad = NULL => y.precio_por_unidad = NULL
                   /\ (x.precio_por_unidad # NULL /\ y.precio_por_unidad # NULL)
                         => x.precio_por_unidad <= y.precio_por_unidad
                   /\ x.precio_por_unidad = y.precio_por_unidad
                         => x.precio <= y.precio

\* C10 witness: a listing of two records of equal unit price and different
\* price followed by a record without unit price.
C10_Testigo ==
    \E r \in Listado("precio_por_unidad") :
        /\ Len(r.resultados) = 3
        /\ r.resultados[1].precio_por_unidad = r.resultados[2].precio_por_unidad
        /\ r.resultados[1].precio < r.resultados[2].precio
        /\ r.resultados[3].precio_por_unidad = NULL

-----------------------------------------------------------------------------
(* Best per size: obtener_top_por_talla. *)

\* the filters of the best-per-size view examined
ConsultasTalla == [marca : {"", "huggies"}, categoria : {"", "Panales"}]

\* x's unit price is at most y's, a null one counting as the highest
PpuMenorOIgual(x, y) ==
    \/ y.precio_por_unidad = NULL
    \/ x.precio_por_unidad # NULL /\ x.precio_por_unidad <= y.precio_por_unidad

\* C11: obtener_top_por_talla returns, for every size that a record of the
\* filtered latest listing has, one record of that size whose unit price is at
\* most that of every listed record of the size (250 when the size is listed at
\* 300 and 250), and nothing for records without size.
C11_MejorPorTalla ==
    \A q \in ConsultasTalla :
        \A m \in obtener_top_por_talla(q.marca, {}, NULL, {}, q.categoria) :
            \E r \in buscar_productos(q.marca, "", {}, {}, NULL, {}, q.categoria,
                                      <<>>, "precio_por_unidad") :
                LET res == r.resultados
                IN  /\ DOMAIN m = {res[k].talla : k \in 1..Len(res)} \ {SIN_TALLA}
                    /\ \A t \in DOMAIN m :
                          /\ m[t].talla = t
                          /\ \E k \in 1..Len(res) : res[k] = m[t]
                          /\ \A k \in 1..Len(res) :
                                res[k].talla = t => PpuMenorOIgual(m[t], res[k])
                          /\ ({250, 300} = {res[k].precio_por_unidad :
                                               k \in {j \in 1..Len(res) : res[j].talla = t}})
                                => m[t].precio_por_unidad = 250

\* C11 witness: the latest listing holds size G at 300 and at 250 at two
\* stores and a cheaper record without size, and the best of G is the 250 one.
C11_Testigo ==
    \E r \in Listado("precio_por_unidad") :
        LET res == r.resultados
        IN  /\ Len(res) = 3
            /\ \E a, b, c \in 1..3 :
                  /\ res[a].talla = "G" /\ res[a].precio_por_unidad = 300
                  /\ res[b].talla = "G" /\ res[b].precio_por_unidad = 250
                  /\ res[a].tienda # res[b].tienda
                  /\ res[c].talla = SIN_TALLA /\ res[c].precio_por_unidad = 200
            /\ \A m \in obtener_top_por_talla("", {}, NULL, {}, "") :
                  DOMAIN m = {"G"} /\ m["G"].precio_por_unidad = 250

-----------------------------------------------------------------------------
(* Alert matching: verificar_alertas. *)

Confirmada(k) == alertas[k].confirmada = 1 /\ alertas[k].activa = 1

\* an e-mail of alert k was recorded on the day of the check
EnviadaHoy(k) ==
    \E e \in 1..Len(alertas_enviadas) :
        /\ alertas_enviadas[e].alerta_id = k
        /\ alertas_enviadas[e].fecha_envio = reloj

\* row i is an observation of the latest run that alert a subscribes to
Coincide(a, i) ==
    /\ EsMaxFecha(precios[i].fecha_scraping)
    /\ IF a.tipo = "producto" THEN precios[i].producto_id = a.producto_id
       ELSE /\ precios[i].precio # NULL
            /\ Lower(productos[precios[i].producto_id].marca) = Lower(a.marca)
            /\ a.cantidad # NULL
                  => productos[precios[i].producto_id].tamano_unidades = a.cantidad
            /\ a.talla # ""
                  => detectar_talla(productos[precios[i].producto_id].nombre) = a.talla

Coincidentes(a) == {i \in 1..Len(precios) : Coincide(a, i)}

\* the least unit price among the observations alert a subscribes to, the
\* total price standing in for an observation of a product without unit price
MasBarato(a) ==
    LET U == IF a.tipo = "producto"
             THEN {IF precios[i].precio_por_unidad # NULL
                   THEN precios[i].precio_por_unidad ELSE precios[i].precio :
                      i \in Coincidentes(a)} \ {NULL}
             ELSE {precios[i].precio_por_unidad : i \in Coincidentes(a)} \ {NULL}
    IN  IF U = {} THEN NULL ELSE Min(U)

HayCorreo(r, k) == \E c \in 1..Len(r.correos) : r.correos[c].alerta_id = k

ClaveAlerta(a, i) ==
    IF a.tipo = "producto"
    THEN IF precios[i].precio_por_unidad = NULL THEN -1
         ELSE precios[i].precio_por_unidad
    ELSE IF precios[i].precio_por_unidad # NULL THEN precios[i].precio_por_unidad
         ELSE precios[i].precio

Primeras(a) ==
    {i \in Coincidentes(a) :
        \A j \in Coincidentes(a) : ClaveAlerta(a, i) <= ClaveAlerta(a, j)}

\* the price compared with the target: the unit price, or the total price
\* when there is no unit price
PrecioComparado(i) ==
    IF precios[i].precio_por_unidad \notin {NULL, 0}
    THEN precios[i].precio_por_unidad ELSE precios[i].precio

Dispara(a, i) == PrecioComparado(i) # NULL /\ PrecioComparado(i) <= a.precio_objetivo

-----------------------------------------------------------------------------
(* Record validation. *)

\* the record has neither url nor nombre
SinUrlNiNombre(p) == p.url = "" /\ p.nombre = <<>>

\* C13: a run rejects every record that has neither url nor nombre: it creates
\* no product identity for it and appends no price observation for it.
C13_RechazaSinUrlNiNombre ==
    [][precios' # precios =>
          /\ Len(precios') = Len(precios)
                + Cardinality({k \in 1..Len(lote') : ~SinUrlNiNombre(lote'[k])})
          /\ \A i \in 1..Len(productos') :
                i > Len(productos) => ~SinUrlNiNombre(productos'[i])]_vars

-----------------------------------------------------------------------------
(* Write failures. *)

\* row i of precios' is the observation this run wrote of record p
ObservacionDe(i, p) ==
    /\ i > Len(precios)
    /\ productos'[precios'[i].producto_id].url = p.url
    /\ precios'[i].precio = p.precio
    /\ precios'[i].fecha_scraping = reloj'

\* C14: when the write of a record fails, only the rest of that store's
\* records is lost: the observations of the records written before it in the
\* run, and those of the records of the other stores, are in precios after
\* the run.
C14_FalloParcial ==
    [][fallo' > 0 =>
          \A j \in 1..Len(lote') :
              (j < fallo' \/ lote'[j].tienda # lote'[fallo'].tienda)
                 => \E i \in 1..Len(precios') : ObservacionDe(i, lote'[j])]_vars


-----------------------------------------------------------------------------
(* Queries before any observation. *)

\* every query returns its empty result
TodasVacias ==
    /\ buscar_productos("", "", {}, {}, NULL, {}, "", <<>>, "precio_por_unidad")
          = {[resultados |-> <<>>, ultima_fecha |-> NULL]}
    /\ obtener_top_por_talla("", {}, NULL, {}, "") = {<<>>}
    /\ obtener_opciones_filtros = {OpcionesVacias}
    /\ verificar_alertas(reloj) # {}
    /\ \A r \in verificar_alertas(reloj) : r.correos = <<>>

\* C15 as the specification has it: when no price observation has been
\* recorded yet, every query returns an empty result instead of raising:
\* buscar_productos ([], None), obtener_top_por_talla an empty mapping,
\* obtener_opciones_filtros empty brand and size lists, verificar_alertas
\* sends nothing.
C15_SinDatosVacio == precios = <<>> => TodasVacias

\* C15 where inicializar_db has run: once the tables exist and precios is
\* empty (a run that failed before its commit), every query returns its empty
\* result.
C15_VacioConTablas == (esquema /\ precios = <<>>) => TodasVacias

\* C15 witness: the tables exist, no observation is stored and a confirmed
\* alert is waiting
C15_Testigo == esquema /\ precios = <<>> /\ AlertasVigentes # {}


-----------------------------------------------------------------------------
(* Sort keys outside ORDEN_PERMITIDO. *)

\* sort keys that are not keys of ORDEN_PERMITIDO
OrdenesDesconocidos == {"", "nombre", "PRECIO"}

\* C16: a query with a sort key outside {precio_por_unidad, precio, marca,
\* tienda} does not fail on account of the key: the results buscar_productos
\* may return, records and order, are exactly those of the default key
\* precio_por_unidad.
C16_OrdenDesconocido ==
    \A o \in OrdenesDesconocidos :
        \A marca \in {"", "huggies"} :
            buscar_productos(marca, "", {}, {}, NULL, {}, "", <<>>, o)
              = buscar_productos(marca, "", {}, {}, NULL, {}, "", <<>>,
                                 "precio_por_unidad")

\* C16 witness: a listing of two records or more returned under an unknown
\* sort key that is no listing of the sort key precio
C16_Testigo ==
    \E r \in Listado("nombre") :
        /\ Len(r.resultados) >= 2
        /\ r \notin Listado("precio")


-----------------------------------------------------------------------------
(* One observation per product, store and run. *)

\* the observations of the run date of the product and store of row f
MismaClave(f) ==
    {i \in 1..Len(precios) :
        /\ precios[i].producto_id = precios[f].producto_id
        /\ precios[i].tienda_id = precios[f].tienda_id
        /\ precios[i].fecha_scraping = reloj}

\* C17: after one pipeline run with run date d, for every product identity and
\* every store that scraped it in that run there is exactly one price
\* observation with run date d, whatever the batch contains (e.g. the same url
\* listed twice in a store's records).
C17_UnaPorTiendaYFecha ==
    (lote # <<>> /\ fallo = 0 /\ Len(precios) = Len(lote)) =>
        \A k \in 1..Len(lote) : Cardinality(MismaClave(FilaDe(k))) = 1


-----------------------------------------------------------------------------
(* What resolving a known url leaves alone. *)

\* C18: resolving an already-known url leaves the identity's nombre and marca
\* as they were at creation, even when the incoming record has a different
\* name or brand; only tamano_unidades and imagen_url may change, and
\* imagen_url only when the incoming image is non-empty (and then to it).
C18_MarcoDeIdentidad ==
    [][\A i \in 1..Len(productos) :
          productos[i].url = llamada'.url =>
             /\ Len(productos') = Len(productos)
             /\ \A j \in 1..Len(productos) : j # i => productos'[j] = productos[j]
             /\ productos'[i].nombre = productos[i].nombre
             /\ productos'[i].marca = productos[i].marca
             /\ productos'[i].url = productos[i].url
             /\ productos'[i].imagen_url # productos[i].imagen_url
                   => /\ llamada'.imagen_url # ""
                      /\ productos'[i].imagen_url = llamada'.imagen_url]_vars

\* C18 witness: the last call resolved a known url with another name, another
\* brand and an image, and the identity keeps its name and brand and has the
\* image.
C18_Testigo ==
    /\ ret \in 1..Len(productos)
    /\ llamada.url = productos[ret].url
    /\ llamada.nombre # productos[ret].nombre
    /\ llamada.marca # productos[ret].marca
    /\ llamada.imagen_url = "img1"
    /\ productos[ret].imagen_url = "img1"


-----------------------------------------------------------------------------
(* The discount. *)

\* round((precio_lista - precio) / precio_lista * 100)
Porcentaje(precio_lista, precio) ==
    RoundDiv((precio_lista - precio) * 100, precio_lista)

\* the records of a listing with the list price stored for them
ConLista(r) ==
    {<<r.resultados[k], precios[r.resultados[k].fila].precio_lista>> :
        k \in 1..Len(r.resultados)}

\* C19 as the specification has it: for every returned record, descuento_pct
\* = round((precio_lista - precio) / precio_lista * 100) when precio_lista >
\* precio (10000 against 12000 gives 17); otherwise descuento_pct is null and
\* precio_lista is suppressed to null (10000 against 9000).
C19_Descuento ==
    \A r \in Listado("precio_por_unidad") : \A x \in ConLista(r) :
        IF x[2] # NULL /\ x[2] > x[1].precio
        THEN /\ x[1].descuento_pct = Porcentaje(x[2], x[1].precio)
             /\ x[1].precio_lista = x[2]
        ELSE /\ x[1].descuento_pct = NULL
             /\ x[1].precio_lista = NULL

\* C19 as the code has it: the discount is computed when precio_lista >
\* precio and precio is not 0; otherwise, a price of 0 included, descuento_pct
\* is null and precio_lista is suppressed to null.
C19_DescuentoSiPrecio ==
    \A r \in Listado("precio_por_unidad") : \A x \in ConLista(r) :
        IF x[2] # NULL /\ x[2] > x[1].precio /\ x[1].precio # 0
        THEN /\ x[1].descuento_pct = Porcentaje(x[2], x[1].precio)
             /\ x[1].precio_lista = x[2]
        ELSE /\ x[1].descuento_pct = NULL
             /\ x[1].precio_lista = NULL

\* C19 witness: a listing with a record of 10000 against 12000 and a discount
\* of 17, a record of 10000 against 9000 without discount or list price, and a
\* record of 0 against 12000 without discount or list price.
C19_Testigo ==
    \E r \in Listado("precio_por_unidad") : \E x, y, z \in ConLista(r) :
        /\ x[1].precio = 10000 /\ x[2] = 12000
        /\ x[1].descuento_pct = 17 /\ x[1].precio_lista = 12000
        /\ y[1].precio = 10000 /\ y[2] = 9000
        /\ y[1].descuento_pct = NULL /\ y[1].precio_lista = NULL
        /\ z[1].precio = 0 /\ z[2] = 12000
        /\ z[1].descuento_pct = NULL /\ z[1].precio_lista = NULL


-----------------------------------------------------------------------------
(* Filter soundness. *)

\* the filtered searches examined; "", {} and NULL are filters not supplied
ConsultasFiltro ==
    [marca : {"", "huggies", "HUGGIES"}, talla : {"", "G"},
     tiendas_sel : {{}, {"Jumbo"}}, precio_max : {NULL, 0, 500},
     busqueda : {{}, {"huggies"}}, categoria : {"", "Panales"}]

BuscarFiltro(q) ==
    buscar_productos(q.marca, q.talla, {}, q.tiendas_sel, q.precio_max,
                     q.busqueda, q.categoria, <<>>, "precio_por_unidad")

\* the record x satisfies the filters of q other than the price ceiling
CumpleFiltros(x, q) ==
    /\ q.tiendas_sel # {} => x.tienda \in q.tiendas_sel
    /\ q.marca # "" => Lower(x.marca) = Lower(q.marca)
    /\ q.busqueda \subseteq Palabras(x.nombre)
    /\ q.talla # "" => x.talla = q.talla
    /\ q.categoria # "" => x.categoria = q.categoria

-----------------------------------------------------------------------------
(* Category priority. *)

\* C21: detectar_categoria returns the formula category whenever the name
\* contains a formula keyword, else wet wipes when it contains a wet-wipes
\* keyword, else water diaper when it contains a water-diaper keyword, else
\* diaper; a name with keywords of several sets gets the set of highest
\* priority, and an empty name gets diaper.
C21_PrioridadDeCategoria ==
    \A i \in 1..Len(precios) :
        LET n == productos[precios[i].producto_id].nombre
            c == Producto(i).categoria
        IN  /\ HayFormula(n) => c = "Formulas Infantiles"
            /\ (~HayFormula(n) /\ HayToallita(n)) => c = "Toallitas Humedas"
            /\ (~HayFormula(n) /\ ~HayToallita(n) /\ HayAgua(n))
                  => c = "Panales de Agua"
            /\ (~HayFormula(n) /\ ~HayToallita(n) /\ ~HayAgua(n)) => c = "Panales"
            /\ n = <<>> => c = "Panales"

\* C21 witness: stored are a name with keywords of the three sets, a name with
\* a wipes and a water keyword, and the empty name.
C21_Testigo ==
    \E i, j, k \in 1..Len(precios) :
        LET n(x) == productos[precios[x].producto_id].nombre
        IN  /\ HayFormula(n(i)) /\ HayToallita(n(i)) /\ HayAgua(n(i))
            /\ ~HayFormula(n(j)) /\ HayToallita(n(j)) /\ HayAgua(n(j))
            /\ Producto(j).categoria = "Toallitas Humedas"
            /\ n(k) = <<>>


-----------------------------------------------------------------------------
(* The size vocabulary. *)

\* the tokens of ORDEN_TALLAS
Vocabulario == {ORDEN_TALLAS[k] : k \in 1..Len(ORDEN_TALLAS)}

\* C22: for every product name, detectar_talla returns either null or a token
\* of ORDEN_TALLAS, any "/" rewritten to "-"; it never returns a token outside
\* the vocabulary.
C22_TallaDelVocabulario ==
    \A i \in 1..Len(precios) : Producto(i).talla \in Vocabulario \cup {SIN_TALLA}

\* C22 for the names that do not write a two-letter size without separator
\* after "talla": the size returned is null or a token of ORDEN_TALLAS.
C22_TallaConSeparador ==
    \A i \in 1..Len(precios) :
        Palabras(productos[precios[i].producto_id].nombre) \cap {"sm", "lxl"} = {}
           => Producto(i).talla \in Vocabulario \cup {SIN_TALLA}


-----------------------------------------------------------------------------
(* The lowest price of a group of names. *)

\* the priced records of the last run that share the normalised name of record k
GrupoDeNombre(k) ==
    {j \in 1..Len(lote) :
        /\ normalizar_nombre(lote[j].nombre) = normalizar_nombre(lote[k].nombre)
        /\ lote[j].precio # NULL}

\* C23: marcar_precios_mas_bajos flags a record exactly when its price is
\* non-null and equals the minimum non-null price among the records of its
\* nombre_normalizado; a record without price is never flagged, tied minima
\* are all flagged, and every group with a priced record has a flagged one.
C23_PrecioMasBajo ==
    LET m == marcar_precios_mas_bajos(lote)
    IN  \A k \in 1..Len(lote) :
            /\ m[k].es_precio_mas_bajo \in {"Si", ""}
            /\ m[k].es_precio_mas_bajo = "Si"
                  <=> /\ lote[k].precio # NULL
                      /\ \A j \in GrupoDeNombre(k) : lote[k].precio <= lote[j].precio
            /\ GrupoDeNombre(k) # {}
                  => \E j \in GrupoDeNombre(k) : m[j].es_precio_mas_bajo = "Si"

\* C23 witness: the last run read the same product under two spellings at the
\* same price, and both records are flagged.
C23_Testigo ==
    LET m == marcar_precios_mas_bajos(lote)
    IN  /\ Len(lote) = 2
        /\ lote[1].nombre # lote[2].nombre
        /\ m[1].nombre_normalizado = m[2].nombre_normalizado
        /\ lote[1].precio = lote[2].precio /\ lote[1].precio # NULL
        /\ m[1].es_precio_mas_bajo = "Si" /\ m[2].es_precio_mas_bajo = "Si"


-----------------------------------------------------------------------------
(* The report: analysis.py on the consolidated file of the last run. *)

\* the records analysis.py reads
Leidos == leer_datos(lote)

\* place k is the first of the store t to have the least non-null price
PrimeroPorPrecio(k, t) ==
    /\ Leidos[k].tienda = t /\ Leidos[k].precio # NULL
    /\ \A j \in 1..Len(Leidos) :
          (Leidos[j].tienda = t /\ Leidos[j].precio # NULL)
             => /\ Leidos[k].precio <= Leidos[j].precio
                /\ Leidos[j].precio = Leidos[k].precio => k <= j

\* place k is the first of the store t to have the least non-null unit price
PrimeroPorUnidad(k, t) ==
    /\ Leidos[k].tienda = t /\ Leidos[k].precio_por_unidad # NULL
    /\ \A j \in 1..Len(Leidos) :
          (Leidos[j].tienda = t /\ Leidos[j].precio_por_unidad # NULL)
             => /\ Leidos[k].precio_por_unidad <= Leidos[j].precio_por_unidad
                /\ Leidos[j].precio_por_unidad = Leidos[k].precio_por_unidad
                      => k <= j

-----------------------------------------------------------------------------
(* Freshness of a run. *)

\* row i of precios' was written by this step from a record the scraper of
\* its store extracted in this run
DeEsteScraper(i) ==
    LET t == tiendas'[precios'[i].tienda_id].nombre
    IN  /\ extraidos'[t].ok
        /\ \E k \in 1..Len(extraidos'[t].productos) :
              /\ extraidos'[t].productos[k].url = productos'[precios'[i].producto_id].url
              /\ extraidos'[t].productos[k].precio = precios'[i].precio

\* C25: every price observation stored with a run's fecha_scraping comes from
\* a scraper execution of that same run; a store whose scraper failed or
\* produced no products in the run contributes no observation with that run
\* date: its CSV left on disk by an earlier run is not read again as fresh
\* prices.
C25_SoloPreciosFrescos ==
    [][\A i \in (Len(precios) + 1)..Len(precios') : DeEsteScraper(i)]_vars


-----------------------------------------------------------------------------
(* One store per product identity. *)

\* C26: after any sequence of pipeline runs, all price observations of one
\* product identity reference the same store: a product identity is never
\* shared by records of two different stores, records arriving with a missing
\* or empty url included.
C26_UnaTiendaPorIdentidad ==
    \A i, j \in 1..Len(precios) :
        precios[i].producto_id = precios[j].producto_id
           => precios[i].tienda_id = precios[j].tienda_id

\* C26 for the records that carry a url: the observations of an identity with
\* a non-empty url reference one store.
C26_UnaTiendaPorUrl ==
    \A i, j \in 1..Len(precios) :
        (/\ precios[i].producto_id = precios[j].producto_id
         /\ productos[precios[i].producto_id].url # "")
           => precios[i].tienda_id = precios[j].tienda_id


-----------------------------------------------------------------------------
(* Alert life cycle: crear_alerta, confirmar_alerta, cancelar_alerta. *)

\* every e-mail a check of the alerts would send now is for an alert that is
\* confirmed and active
SoloVigentes ==
    \A r \in verificar_alertas(reloj) : \A c \in 1..Len(r.correos) :
        /\ r.correos[c].alerta_id \in 1..Len(alertas)
        /\ Confirmada(r.correos[c].alerta_id)

\* no step removes an alert, activates one again or withdraws a confirmation;
\* a new alert is unconfirmed, and only confirmar_alerta confirms
CicloIrreversible ==
    /\ Len(alertas') >= Len(alertas)
    /\ \A k \in 1..Len(alertas) :
          /\ alertas[k].activa = 0 => alertas'[k].activa = 0
          /\ alertas[k].confirmada = 1 => alertas'[k].confirmada = 1
          /\ (alertas[k].confirmada = 0 /\ alertas'[k].confirmada = 1)
                => alertas' = confirmar_alerta(k)
    /\ \A k \in (Len(alertas) + 1)..Len(alertas') : alertas'[k].confirmada = 0

\* C27: verificar_alertas sends a price alert only for alerts with
\* confirmada = 1 and activa = 1; a newly created alert is unconfirmed and is
\* confirmed by confirmar_alerta alone, and an alert that cancelar_alerta has
\* made inactive stays inactive under every later crear, confirmar, cancelar
\* and verificar, so no price alert is sent for it again.
C27_CicloDeVida == [](SoloVigentes) /\ [][CicloIrreversible]_vars

\* C27 witness: the first alert is confirmed and cancelled and the second one
\* in force, the latest run has the price of both at 250 under the target of
\* 280, no e-mail of the first is recorded in the last 24 hours, and the check
\* of today sent an e-mail for the second and none for the first.
C27_Testigo ==
    /\ Len(alertas) = 2
    /\ alertas[1].confirmada = 1 /\ alertas[1].activa = 0
    /\ Confirmada(2)
    /\ \E i \in FilasAlerta(alertas[1]) : PrecioActual(i) = 250
    /\ ~YaEnviada(1, alertas_enviadas, reloj)
    /\ \E c \in 1..Len(correos) :
          /\ correos[c].alerta_id = 2
          /\ precios[correos[c].fila].fecha_scraping = reloj
    /\ \A c \in 1..Len(correos) : correos[c].alerta_id # 1
    /\ \E e \in 1..Len(alertas_enviadas) :
          /\ alertas_enviadas[e].alerta_id = 2
          /\ alertas_enviadas[e].fecha_envio = reloj


-----------------------------------------------------------------------------
(* Alert rate limit: alertas_enviadas. *)

\* an e-mail of alert k is recorded in the sequence within the 24 hours before
\* the clock
Reciente(k, enviadas) ==
    \E e \in 1..Len(enviadas) :
        enviadas[e].alerta_id = k /\ enviadas[e].fecha_envio > reloj - 1

\* the e-mails of the outcome r that Resend accepted, in the order sent
Aceptados(r) == SelectSeq(r.correos, LAMBDA c : c.enviado)

\* C28: the recorded e-mails of an alert are at least 24 hours apart; a check
\* of the alerts attempts at most one e-mail per alert, and none for an alert
\* with an e-mail recorded in the last 24 hours; it records the e-mails that
\* were sent and no others, so that after a failed send the alert has no new
\* record and the next check may send again.
C28_LimiteDeEnvios ==
    /\ \A e, f \in 1..Len(alertas_enviadas) :
          (e < f /\ alertas_enviadas[e].alerta_id = alertas_enviadas[f].alerta_id)
             => alertas_enviadas[f].fecha_envio >= alertas_enviadas[e].fecha_envio + 1
    /\ \A r \in verificar_alertas(reloj) :
          /\ \A c, d \in 1..Len(r.correos) :
                r.correos[c].alerta_id = r.correos[d].alerta_id => c = d
          /\ \A c \in 1..Len(r.correos) :
                ~Reciente(r.correos[c].alerta_id, alertas_enviadas)
          /\ Len(r.enviadas) = Len(alertas_enviadas) + Len(Aceptados(r))
          /\ \A e \in 1..Len(r.enviadas) :
                IF e <= Len(alertas_enviadas) THEN r.enviadas[e] = alertas_enviadas[e]
                ELSE /\ r.enviadas[e].alerta_id
                          = Aceptados(r)[e - Len(alertas_enviadas)].alerta_id
                     /\ r.enviadas[e].fecha_envio = reloj
          /\ \A c \in 1..Len(r.correos) :
                ~r.correos[c].enviado => ~Reciente(r.correos[c].alerta_id, r.enviadas)

\* C28 witness: the first alert, in force and with its price under the
\* target, was sent an e-mail the day before and again today; a check now
\* attempts no e-mail for it, and the last check attempted one for the second
\* alert that was not sent and is not recorded.
C28_Testigo ==
    /\ Len(alertas) = 2 /\ Confirmada(1)
    /\ \E i \in FilasAlerta(alertas[1]) : PrecioActual(i) <= alertas[1].precio_objetivo
    /\ Len(alertas_enviadas) = 2
    /\ alertas_enviadas[1].alerta_id = 1 /\ alertas_enviadas[1].fecha_envio = reloj - 1
    /\ alertas_enviadas[2].alerta_id = 1 /\ alertas_enviadas[2].fecha_envio = reloj
    /\ \A r \in verificar_alertas(reloj) :
          \A c \in 1..Len(r.correos) : r.correos[c].alerta_id # 1
    /\ \E c \in 1..Len(correos) : correos[c].alerta_id = 2 /\ ~correos[c].enviado


-----------------------------------------------------------------------------
(* Brand filter: obtener_opciones_filtros against buscar_productos. *)

\* the search by the brand m alone
BuscarMarca(m) ==
    buscar_productos(m, "", {}, {}, NULL, {}, "", <<>>, "precio_por_unidad")

\* the rows of the latest run that put the brand m among the options offered
FilasDeMarca(m) == {i \in FilasOpciones : Producto(i).marca_normalizada = m}

\* the result res lists the product of row i at the store of row i
Listado_En(res, i) ==
    \E k \in 1..Len(res) :
        /\ res[k].nombre = Producto(i).nombre
        /\ res[k].url = Producto(i).url
        /\ res[k].tienda = Producto(i).tienda

\* C29: for every brand that obtener_opciones_filtros offers for the latest
\* run, buscar_productos filtered by that brand lists every record of the
\* latest run whose normalised brand is that brand, and so is never empty.
C29_MarcaOfrecida ==
    \A o \in obtener_opciones_filtros : \A m \in o[""].marcas :
        \A r \in BuscarMarca(m) :
            /\ r.resultados # <<>>
            /\ \A i \in FilasDeMarca(m) : Listado_En(r.resultados, i)

\* C29 for the brands stored under a name that no alias renames: the brand
\* offered lists every record that put it among the options.
C29_MarcaSinAlias ==
    \A o \in obtener_opciones_filtros : \A m \in o[""].marcas :
        \A r \in BuscarMarca(m) :
            \A i \in FilasDeMarca(m) :
                Title(Union(i).marca) = m => Listado_En(r.resultados, i)


-----------------------------------------------------------------------------
(* Potential savings: calcular_ahorro. *)

\* the unit prices of the records of the brand in the latest listing
PreciosPorUnidad(marca_sel) ==
    UNION {{r.resultados[k].precio_por_unidad :
               k \in {j \in 1..Len(r.resultados) :
                         Truthy(r.resultados[j].precio_por_unidad)}} :
           r \in buscar_productos(marca_sel, "", {}, {}, NULL, {}, "", <<>>,
                                  "precio_por_unidad")}

\* the savings a compare the least unit price of the brand with the greatest
\* and are not negative
AhorroCorrecto(a, marca_sel) ==
    /\ a.mejor.precio_por_unidad = Min(PreciosPorUnidad(marca_sel))
    /\ a.peor.precio_por_unidad = Max(PreciosPorUnidad(marca_sel))
    /\ a.diferencia_por_unidad >= 0
    /\ a.porcentaje >= 0
    /\ a.ahorro_mensual >= 0
    /\ a.ahorro_anual >= 0

\* C30: whenever the index page computes the savings, under every sort key of
\* ORDEN_PERMITIDO, 'mejor' has the least unit price of the results and 'peor'
\* the greatest, and the difference, the percentage and the monthly and
\* yearly savings are not negative.
C30_AhorroNoNegativo ==
    \A orden \in ORDEN_PERMITIDO :
        \A s \in AhorroDelIndice("huggies", orden) :
            s # <<>> => AhorroCorrecto(s[1], "huggies")

\* C30 for the sort key precio_por_unidad, which is the default of the page and
\* stands in for a key outside ORDEN_PERMITIDO.
C30_AhorroPorUnidad ==
    \A orden \in {"precio_por_unidad", "nombre"} :
        \A s \in AhorroDelIndice("huggies", orden) :
            s # <<>> => AhorroCorrecto(s[1], "huggies")

=============================================================================
